---- MODULE Spec2Model ----
(***************************************************************************)
(* A model of robotidy's transformers (src/robotidy/transformers.py and    *)
(* src/robotidy/transformers/*.py) working on a Robot Framework model.     *)
(*                                                                         *)
(* A str is a tuple of one-character strings, so that slicing, searching   *)
(* and regular expressions are computed character by character.  A Token   *)
(* is a record (type, value, lineno, col_offset); a Statement is a record  *)
(* (type, tokens); a block (File, section, TestCase, Keyword, If) is a     *)
(* record with the fields of the robot.parsing.model class.                *)
(***************************************************************************)
EXTENDS Integers, Sequences, FiniteSets, TLC

VARIABLES
    formatting_config,  \* the run's formatting parameters, shared by every transformer
    allowed_transformers, \* the configured (name, args) pairs; empty when none was configured
    transformers,       \* what load_transformers returned: the transformer instances, in order
    sources,            \* the models of the files still to be formatted
    serial,             \* how many models were handed over so far (an object's identity)
    source,             \* the model as it was handed over
    previous,           \* the model that was handed over before it (None for the first)
    model,              \* the model under transformation
    before,             \* the model as the transformer that ran last received it
    pos,                \* index in transformers of the transformer that runs next
    first,              \* the model after the first run of the pipeline (None before)
    configs,            \* the TransformerConfig objects the wizard has collected
    wrote,              \* what the wizard wrote: a (file, text) pair for every write
    pc                  \* "load" | "run" | "done" | "raised" | "collect" | "generated"

vars == <<formatting_config, allowed_transformers, transformers, sources, serial, source, previous, model, before,
          pos, first, configs, wrote, pc>>

None == [type |-> "None"]
Raised == [type |-> "raise", exc |-> "IndexError"]

\* the errors a constructor raises for a parameter value it does not accept
BadOptionUsage == [type |-> "raise", exc |-> "BadOptionUsage"]
InvalidParameterValueError == [type |-> "raise", exc |-> "InvalidParameterValueError"]

Max(a, b) == IF a >= b THEN a ELSE b

\* the sequence a function over 1..n denotes, computed once
AsSeq(f) == SelectSeq(f, LAMBDA e : TRUE)

Front(s) == SubSeq(s, 1, Len(s) - 1)
Last(s) == s[Len(s)]

RECURSIVE Concat(_)
Concat(seqs) == IF seqs = <<>> THEN <<>> ELSE Head(seqs) \o Concat(Tail(seqs))

IsSection(node) ==
    node.type \in {"SettingSection", "VariableSection", "TestCaseSection",
                   "KeywordSection", "CommentSection"}
IsBlock(node) == node.type \in {"TestCase", "Keyword"}

(***************************************************************************)
(* str                                                                     *)
(***************************************************************************)
Upper == <<"A","B","C","D","E","F","G","H","I","J","K","L","M",
           "N","O","P","Q","R","S","T","U","V","W","X","Y","Z">>
Lower == <<"a","b","c","d","e","f","g","h","i","j","k","l","m",
           "n","o","p","q","r","s","t","u","v","w","x","y","z">>

IndexIn(c, alphabet) ==
    IF \E i \in 1..Len(alphabet) : alphabet[i] = c
    THEN CHOOSE i \in 1..Len(alphabet) : alphabet[i] = c
    ELSE 0

lower_char(c) == IF IndexIn(c, Upper) > 0 THEN Lower[IndexIn(c, Upper)] ELSE c
upper_char(c) == IF IndexIn(c, Lower) > 0 THEN Upper[IndexIn(c, Lower)] ELSE c
isalpha(c) == IndexIn(c, Upper) > 0 \/ IndexIn(c, Lower) > 0
isspace(c) == c \in {" ", "\t", "\n"}

str_lower(s) == AsSeq([i \in 1..Len(s) |-> lower_char(s[i])])
str_upper(s) == AsSeq([i \in 1..Len(s) |-> upper_char(s[i])])

\* str.lstrip(), str.rstrip(), str.strip()
RECURSIVE str_lstrip(_)
str_lstrip(s) == IF s # <<>> /\ isspace(Head(s)) THEN str_lstrip(Tail(s)) ELSE s

RECURSIVE str_rstrip(_)
str_rstrip(s) == IF s # <<>> /\ isspace(Last(s)) THEN str_rstrip(Front(s)) ELSE s

str_strip(s) == str_rstrip(str_lstrip(s))

\* str.title(): a letter is upper case after anything but a letter, else lower case
str_title(s) ==
    AsSeq([i \in 1..Len(s) |->
              IF i = 1 \/ ~isalpha(s[i - 1]) THEN upper_char(s[i]) ELSE lower_char(s[i])])

\* robot.utils.normalize_whitespace: re.sub(r'\s+', ' ', string)
RECURSIVE normalize_whitespace(_)
normalize_whitespace(s) ==
    IF s = <<>> THEN <<>>
    ELSE IF isspace(Head(s)) THEN <<" ">> \o normalize_whitespace(str_lstrip(s))
    ELSE <<Head(s)>> \o normalize_whitespace(Tail(s))

RECURSIVE str_remove(_, _)
str_remove(s, c) ==
    IF s = <<>> THEN <<>>
    ELSE IF Head(s) = c THEN str_remove(Tail(s), c)
    ELSE <<Head(s)>> \o str_remove(Tail(s), c)

RECURSIVE Spaces(_)
Spaces(n) == IF n <= 0 THEN <<>> ELSE <<" ">> \o Spaces(n - 1)

\* robotidy.utils.normalize_name
normalize_name(name) == str_remove(str_lower(name), " ")

S_IF == <<"I","F">>
S_ELSE == <<"E","L","S","E">>
S_ELSE_IF == <<"E","L","S","E"," ","I","F">>
S_END == <<"E","N","D">>
S_AND == <<"A","N","D">>
S_EOL == <<"\n">>
S_NONE == <<"N","O","N","E">>
\* the header SectionHeader.from_params gives a section
S_Comments == <<"*","*","*"," ","C","o","m","m","e","n","t","s"," ","*","*","*">>
S_Variables == <<"*","*","*"," ","V","a","r","i","a","b","l","e","s"," ","*","*","*">>
S_Settings == <<"*","*","*"," ","S","e","t","t","i","n","g","s"," ","*","*","*">>
S_TestCases == <<"*","*","*"," ","T","e","s","t"," ","C","a","s","e","s"," ","*","*","*">>
S_Keywords == <<"*","*","*"," ","K","e","y","w","o","r","d","s"," ","*","*","*">>
S_runkeywordif == <<"r","u","n","k","e","y","w","o","r","d","i","f">>
S_runkeywords == <<"r","u","n","k","e","y","w","o","r","d","s">>

(***************************************************************************)
(* robot.api.parsing: Token, Statement                                     *)
(***************************************************************************)
\* Token(type, value): a token made by a transformer has no position
Token(type, value) == [type |-> type, value |-> value, lineno |-> -1, col_offset |-> -1]

TokenAt(type, value, lineno, col_offset) ==
    [type |-> type, value |-> value, lineno |-> lineno, col_offset |-> col_offset]

SelectTokens(tokens, types) == SelectSeq(tokens, LAMBDA t : t.type \in types)

get_tokens(node, type) == SelectTokens(node.tokens, {type})

NonData == {"SEPARATOR", "COMMENT", "CONTINUATION", "EOL", "EOS"}

data_tokens(node) == SelectSeq(node.tokens, LAMBDA t : t.type \notin NonData)

Values(tokens) == AsSeq([i \in 1..Len(tokens) |-> tokens[i].value])

\* Statement.from_tokens: the class is that of the first token a statement class handles
HandledTypes == {"KEYWORD", "ASSIGN", "VARIABLE", "COMMENT"}

StatementType(tokens) ==
    LET handled == SelectTokens(tokens, HandledTypes)
    IN  IF handled = <<>> THEN "EmptyLine"
        ELSE IF handled[1].type = "VARIABLE" THEN "Variable"
        ELSE IF handled[1].type = "COMMENT" THEN "Comment"
        ELSE "KeywordCall"

from_tokens(tokens) == [type |-> StatementType(tokens), tokens |-> tokens]

\* KeywordCall.keyword (None is <<>>: the code only tests its truth), KeywordCall.assign
keyword(node) ==
    LET kw == get_tokens(node, "KEYWORD") IN IF kw = <<>> THEN <<>> ELSE kw[1].value

assign(node) == Values(get_tokens(node, "ASSIGN"))

lineno(node) == IF node.tokens = <<>> THEN -1 ELSE node.tokens[1].lineno
end_lineno(node) == IF node.tokens = <<>> THEN -1 ELSE node.tokens[Len(node.tokens)].lineno

(***************************************************************************)
(* robotidy.decorators.check_start_end_line, robotidy.utils                *)
(* .node_outside_selection: the selection scope guard.  A window is <<>>   *)
(* (none configured) or <<start_line, end_line>>.                          *)
(***************************************************************************)
node_outside_selection(first_line, last_line, fc) ==
    /\ fc.window # <<>>
    /\ \/ last_line < fc.window[1]
       \/ first_line > fc.window[2]

(***************************************************************************)
(* transformers.py: insert_separators, ReplaceRunKeywordIf                 *)
(***************************************************************************)
RECURSIVE interleave(_, _)
interleave(tokens, sep) ==
    IF Len(tokens) <= 1 THEN tokens
    ELSE <<Head(tokens), sep>> \o interleave(Tail(tokens), sep)

insert_separators(indent, tokens, fc) ==
    <<Token("SEPARATOR", indent \o Spaces(fc.space_count))>>
    \o interleave(tokens, Token("SEPARATOR", Spaces(fc.space_count)))
    \o <<Token("EOL", S_EOL)>>

RECURSIVE split_from(_, _, _, _)
split_from(args, delimeters, prev_index, index) ==
    IF index > Len(args) THEN <<SubSeq(args, prev_index, Len(args))>>
    ELSE IF args[index].value \in delimeters
         THEN <<SubSeq(args, prev_index, index - 1)>>
              \o split_from(args, delimeters, index, index + 1)
         ELSE split_from(args, delimeters, prev_index, index + 1)

split_args_on_delimeters(args, delimeters) == split_from(args, delimeters, 1, 1)

\* args_to_keyword, were it to leave out the assignment targets
args_to_keyword_unassigned(arg_tokens, assign_tokens, indent, fc) ==
    IF arg_tokens = <<>> THEN Raised
    ELSE from_tokens(insert_separators(
             indent, <<Token("KEYWORD", arg_tokens[1].value)>> \o Tail(arg_tokens), fc))

\* arg_tokens[0] of an empty list raises IndexError
args_to_keyword(arg_tokens, assign_tokens, indent, fc) ==
    IF arg_tokens = <<>> THEN Raised
    ELSE from_tokens(insert_separators(
             indent,
             assign_tokens \o <<Token("KEYWORD", arg_tokens[1].value)>> \o Tail(arg_tokens),
             fc))

\* a list of nodes that stands for "building the list raised"
RaisedList == <<Raised>>
Raises(nodes) == nodes # <<>> /\ nodes[1].type = "raise"

\* the list comprehension stops at the first keyword that raises
RECURSIVE keyword_list(_, _, _, _)
keyword_list(segments, assign_tokens, indent, fc) ==
    IF segments = <<>> THEN <<>>
    ELSE LET kw == args_to_keyword(Tail(Head(segments)), assign_tokens, indent, fc)
             rest == keyword_list(Tail(segments), assign_tokens, indent, fc)
         IN  IF kw = Raised \/ Raises(rest) THEN RaisedList ELSE <<kw>> \o rest

\* create_keywords, were it to compare the keyword as it is written
create_keywords_exact(arg_tokens, assign_tokens, indent, fc) ==
    IF arg_tokens[1].value = <<"R","u","n"," ","K","e","y","w","o","r","d","s">>
    THEN keyword_list(split_args_on_delimeters(arg_tokens, {S_AND}), assign_tokens, indent, fc)
    ELSE <<args_to_keyword(arg_tokens, assign_tokens, indent, fc)>>

\* The body of a branch.  For a single keyword the code returns the bare
\* KeywordCall, which generic_visit and the writer handle as a body of one.
create_keywords(arg_tokens, assign_tokens, indent, fc) ==
    IF normalize_name(arg_tokens[1].value) = S_runkeywords
    THEN keyword_list(split_args_on_delimeters(arg_tokens, {S_AND}), assign_tokens, indent, fc)
    ELSE <<args_to_keyword(arg_tokens, assign_tokens, indent, fc)>>

IfBlock(header, body, orelse) ==
    [type |-> "If", header |-> header, body |-> body, orelse |-> orelse, end |-> None]

ElseHeader(separator) ==
    [type |-> "ElseHeader",
     tokens |-> <<separator, Token("ELSE", S_ELSE), Token("EOL", S_EOL)>>]

ElseIfHeader(separator, condition, fc) ==
    [type |-> "ElseIfHeader",
     tokens |-> <<separator, Token("ELSE IF", S_ELSE_IF),
                  Token("SEPARATOR", Spaces(fc.space_count)), condition, Token("EOL", S_EOL)>>]

IfHeader(separator, condition, fc) ==
    [type |-> "IfHeader",
     tokens |-> <<separator, Token("IF", S_IF),
                  Token("SEPARATOR", Spaces(fc.space_count)), condition, Token("EOL", S_EOL)>>]

End(separator) ==
    [type |-> "End", tokens |-> <<separator, Token("END", S_END), Token("EOL", S_EOL)>>]

\* the loop over reversed(branches): branches[index] is handled, then index - 1
RECURSIVE branch_loop(_, _, _, _, _)
branch_loop(node, branches, index, prev_if, fc) ==
    LET separator == node.tokens[1]
        assign_tokens == get_tokens(node, "ASSIGN")
        branch == branches[index]
        linked(header, args) ==
            LET keywords == create_keywords(args, assign_tokens, separator.value, fc)
            IN  IF Raises(keywords) THEN Raised
                ELSE branch_loop(node, branches, index - 1,
                                 IfBlock(header, keywords, prev_if), fc)
    IN  IF index = 0 THEN [prev_if EXCEPT !.end = End(separator)]
        ELSE IF branch = <<>> THEN Raised
        ELSE IF branch[1].value = S_ELSE
             THEN IF Len(branch) < 2 THEN node
                  ELSE linked(ElseHeader(separator), Tail(branch))
        ELSE IF branch[1].value = S_ELSE_IF
             THEN IF Len(branch) < 3 THEN node
                  ELSE linked(ElseIfHeader(separator, branch[2], fc), SubSeq(branch, 3, Len(branch)))
        ELSE IF Len(branch) < 2 THEN node
             ELSE linked(IfHeader(separator, branch[1], fc), Tail(branch))

create_branched(node, fc) ==
    LET raw_args == get_tokens(node, "ARGUMENT")
        branches == split_args_on_delimeters(raw_args, {S_ELSE, S_ELSE_IF})
    IN  IF Len(raw_args) < 2 THEN node
        ELSE branch_loop(node, branches, Len(branches), None, fc)

ReplaceRunKeywordIf_visit_KeywordCall(node, fc) ==
    IF node_outside_selection(lineno(node), end_lineno(node), fc) THEN node
    ELSE IF keyword(node) = <<>> THEN node
    ELSE IF normalize_name(keyword(node)) = S_runkeywordif THEN create_branched(node, fc)
    ELSE node


(***************************************************************************)
(* transformers.py: AssignmentNormalizer, AssignmentTypeDetector.           *)
(* An optional str (None or a str) is <<>> or <<str>>.                      *)
(***************************************************************************)
S_eq == <<"=">>
S_space_eq == <<" ", "=">>

\* re.sub(r'\s?=$', '', value)
remove_equal_sign(value) ==
    IF value = <<>> \/ Last(value) # "=" THEN value
    ELSE IF Front(value) # <<>> /\ isspace(Last(Front(value))) THEN Front(Front(value))
    ELSE Front(value)

\* parse_equal_sign_type: the types dict
parse_equal_sign_type(value) ==
    CASE value = "remove" -> <<<<>>>>
      [] value = "equal_sign" -> <<S_eq>>
      [] value = "space_and_equal_sign" -> <<S_space_eq>>
      [] value = "autodetect" -> <<>>

\* AssignmentNormalizer.__init__; parse_equal_sign_type raises for a value
\* that is not a key of types
AssignmentNormalizer(equal_sign_type) ==
    IF equal_sign_type \notin {"remove", "equal_sign", "space_and_equal_sign", "autodetect"}
    THEN BadOptionUsage
    ELSE [name |-> "AssignmentNormalizer",
          file_equal_sign_type |-> <<>>,
          equal_sign_type |-> parse_equal_sign_type(equal_sign_type)]

Truthy(optional) == optional # <<>> /\ optional[1] # <<>>

\* normalize_equal_sign: the value the token gets
normalize_equal_sign(value, self) ==
    IF Truthy(self.equal_sign_type) THEN remove_equal_sign(value) \o self.equal_sign_type[1]
    ELSE IF Truthy(self.file_equal_sign_type)
         THEN remove_equal_sign(value) \o self.file_equal_sign_type[1]
    ELSE remove_equal_sign(value)

\* str.find: the index (from 0) of the first occurrence, -1 when there is none
find(value, c) ==
    IF \E i \in 1..Len(value) : value[i] = c
    THEN (CHOOSE i \in 1..Len(value) : value[i] = c /\ \A j \in 1..(i - 1) : value[j] # c) - 1
    ELSE -1

\* token_value[token_value.find('}')+1:]
get_assignment_sign(token_value) ==
    SubSeq(token_value, find(token_value, "}") + 2, Len(token_value))

\* the last of the tokens has its value normalized
NormalizeLast(tokens, type, self) ==
    LET at == {i \in 1..Len(tokens) : tokens[i].type = type}
        last == CHOOSE i \in at : \A j \in at : j <= i
    IN  [tokens EXCEPT ![last].value = normalize_equal_sign(tokens[last].value, self)]

\* the first of the tokens has its value normalized
NormalizeFirst(tokens, type, self) ==
    LET at == {i \in 1..Len(tokens) : tokens[i].type = type}
        head == CHOOSE i \in at : \A j \in at : i <= j
    IN  [tokens EXCEPT ![head].value = normalize_equal_sign(tokens[head].value, self)]

AssignmentNormalizer_visit_KeywordCall(node, self) ==
    IF assign(node) # <<>>
    THEN [node EXCEPT !.tokens = NormalizeLast(node.tokens, "ASSIGN", self)]
    ELSE node

AssignmentNormalizer_visit_VariableSection(node, self) ==
    [node EXCEPT !.body =
        AsSeq([i \in 1..Len(node.body) |->
                  IF node.body[i].type # "Variable" THEN node.body[i]
                  ELSE [node.body[i] EXCEPT
                           !.tokens = NormalizeFirst(node.body[i].tokens, "VARIABLE", self)]])]

\* generic_visit below the File: visit_VariableSection does not go further
\* down, every other node is traversed down to its keyword calls
RECURSIVE AssignmentNormalizer_generic_visit(_, _)
AssignmentNormalizer_generic_visit(node, self) ==
    LET each(nodes) ==
            AsSeq([i \in 1..Len(nodes) |-> AssignmentNormalizer_generic_visit(nodes[i], self)])
    IN  CASE node.type = "KeywordCall" -> AssignmentNormalizer_visit_KeywordCall(node, self)
          [] node.type = "VariableSection" -> AssignmentNormalizer_visit_VariableSection(node, self)
          [] node.type = "File" -> [node EXCEPT !.sections = each(node.sections)]
          [] IsSection(node) \/ IsBlock(node) -> [node EXCEPT !.body = each(node.body)]
          [] node.type = "If" ->
                [node EXCEPT !.body = each(node.body),
                             !.orelse = IF node.orelse = None THEN None
                                        ELSE AssignmentNormalizer_generic_visit(node.orelse, self)]
          [] OTHER -> node

\* AssignmentTypeDetector: the signs in the order the visitor meets them
RECURSIVE Signs(_)
Signs(node) ==
    LET each(nodes) == Concat(AsSeq([i \in 1..Len(nodes) |-> Signs(nodes[i])]))
    IN  CASE node.type = "KeywordCall" ->
                IF assign(node) # <<>>
                THEN <<get_assignment_sign(Last(assign(node)))>>
                ELSE <<>>
          [] node.type = "VariableSection" ->
                LET variables == SelectSeq(node.body, LAMBDA child : child.type = "Variable")
                IN  AsSeq([i \in 1..Len(variables) |->
                              get_assignment_sign(get_tokens(variables[i], "VARIABLE")[1].value)])
          [] node.type = "File" -> each(node.sections)
          [] IsSection(node) \/ IsBlock(node) -> each(node.body)
          [] node.type = "If" ->
                each(node.body) \o (IF node.orelse = None THEN <<>> ELSE Signs(node.orelse))
          [] OTHER -> <<>>

\* Counter: the distinct signs in the order of their first occurrence
RECURSIVE Keys(_)
Keys(signs) ==
    IF signs = <<>> THEN <<>>
    ELSE LET front == Keys(Front(signs))
         IN  IF \E i \in 1..Len(front) : front[i] = Last(signs) THEN front
             ELSE Append(front, Last(signs))

Count(signs, sign) == Cardinality({i \in 1..Len(signs) : signs[i] = sign})

\* Counter.most_common(1)[0][0]: the first key with the largest count
most_common_key(signs) ==
    LET keys == Keys(signs)
        best == CHOOSE i \in 1..Len(keys) :
                    /\ \A j \in 1..Len(keys) : Count(signs, keys[j]) <= Count(signs, keys[i])
                    /\ \A j \in 1..(i - 1) : Count(signs, keys[j]) < Count(signs, keys[i])
    IN  keys[best]

\* AssignmentTypeDetector.visit_File: most_common, None with fewer than two signs
most_common(node) ==
    IF Len(Keys(Signs(node))) >= 2 THEN <<most_common_key(Signs(node))>> ELSE <<>>

auto_detect_equal_sign(node) == most_common(node)

\* visit_File, were it to keep the detected sign of a file for the files after it
AssignmentNormalizer_visit_File_kept(node, self) ==
    LET detected == IF self.equal_sign_type = <<>> /\ auto_detect_equal_sign(node) # <<>>
                    THEN [self EXCEPT !.file_equal_sign_type = auto_detect_equal_sign(node)]
                    ELSE self
    IN  [model |-> AssignmentNormalizer_generic_visit(node, detected), self |-> detected]

\* AssignmentNormalizer.visit_File: the model and the instance after the visit
AssignmentNormalizer_visit_File(node, self) ==
    IF self.equal_sign_type = <<>> /\ auto_detect_equal_sign(node) = <<>>
    THEN [model |-> node, self |-> self]
    ELSE LET detected == IF self.equal_sign_type = <<>>
                         THEN [self EXCEPT !.file_equal_sign_type = auto_detect_equal_sign(node)]
                         ELSE self
         IN  [model |-> AssignmentNormalizer_generic_visit(node, detected),
              self |-> [detected EXCEPT !.file_equal_sign_type = <<>>]]

(***************************************************************************)
(* transformers.py: NormalizeNewLines, TestTemplateFinder.                  *)
(* "node is self.last_test" compares objects: a parsed node is identified   *)
(* by the file it belongs to and the line it starts on, None is <<>>.       *)
(***************************************************************************)
HasHeader(node) == IsSection(node) \/ IsBlock(node) \/ node.type = "If"
FirstLine(node) == IF HasHeader(node) THEN lineno(node.header) ELSE lineno(node)
NodeId(node, id) == <<id, FirstLine(node)>>

\* every statement of a node, in the order of the file
RECURSIVE Statements(_)
Statements(node) ==
    LET each(nodes) == Concat(AsSeq([i \in 1..Len(nodes) |-> Statements(nodes[i])]))
    IN  CASE node.type = "File" -> each(node.sections)
          [] IsSection(node) \/ IsBlock(node) -> <<node.header>> \o each(node.body)
          [] node.type = "If" ->
                <<node.header>> \o each(node.body)
                \o (IF node.orelse = None THEN <<>> ELSE Statements(node.orelse))
                \o (IF node.end = None THEN <<>> ELSE <<node.end>>)
          [] OTHER -> <<node>>

\* EmptyLine.from_params()
EmptyLine_from_params == [type |-> "EmptyLine", tokens |-> <<Token("EOL", S_EOL)>>]

\* [node] * n
Repeat(node, n) == AsSeq([i \in 1..n |-> node])

\* trim_trailing_empty_lines, were it to pop every blank line of the body
trim_trailing_empty_lines_all(body) ==
    SelectSeq(body, LAMBDA statement : statement.type # "EmptyLine")

RECURSIVE trim_trailing_empty_lines(_)
trim_trailing_empty_lines(body) ==
    IF body # <<>> /\ Last(body).type = "EmptyLine"
    THEN trim_trailing_empty_lines(Front(body))
    ELSE body

\* trim_leading_empty_lines, were it to leave the body as it is
trim_leading_empty_lines_kept(body) == body

RECURSIVE trim_leading_empty_lines(_)
trim_leading_empty_lines(body) ==
    IF body # <<>> /\ Head(body).type = "EmptyLine"
    THEN trim_leading_empty_lines(Tail(body))
    ELSE body

\* TestTemplateFinder.visit_TestTemplate: node.value is the name the setting gives
TestTemplate_value(node) ==
    LET given == SelectTokens(node.tokens, {"NAME", "ARGUMENT"})
    IN  IF given = <<>> THEN <<>> ELSE <<given[1].value>>

\* is_templated, were the finder never to find a template
is_templated_never(node) == FALSE

is_templated(node) ==
    \E i \in 1..Len(Statements(node)) :
        /\ Statements(node)[i].type = "TestTemplate"
        /\ Truthy(TestTemplate_value(Statements(node)[i]))

\* NormalizeNewLines.__init__: keyword_lines is <<>> (None) or <<lines>>
NormalizeNewLines(test_case_lines, keyword_lines, section_lines, separate_templated_tests) ==
    [name |-> "NormalizeNewLines",
     test_case_lines |-> test_case_lines,
     keyword_lines |-> IF keyword_lines # <<>> THEN keyword_lines[1] ELSE test_case_lines,
     section_lines |-> section_lines,
     separate_templated_tests |-> separate_templated_tests,
     last_section |-> <<>>,
     last_test |-> <<>>,
     last_keyword |-> <<>>,
     templated |-> FALSE]

Trimmed(node) ==
    [node EXCEPT !.body = trim_trailing_empty_lines(trim_leading_empty_lines(node.body))]

NormalizeNewLines_visit_TestCase(node, self, id) ==
    IF NodeId(node, id) = self.last_test THEN Trimmed(node)
    ELSE IF ~self.templated
    THEN [Trimmed(node) EXCEPT !.body = @ \o Repeat(EmptyLine_from_params, self.test_case_lines)]
    ELSE Trimmed(node)

\* visit_Keyword, were it not to tell the last keyword from the others
NormalizeNewLines_visit_Keyword_every(node, self, id) ==
    [Trimmed(node) EXCEPT !.body = @ \o Repeat(EmptyLine_from_params, self.keyword_lines)]

NormalizeNewLines_visit_Keyword(node, self, id) ==
    IF NodeId(node, id) = self.last_keyword THEN Trimmed(node)
    ELSE [Trimmed(node) EXCEPT !.body = @ \o Repeat(EmptyLine_from_params, self.keyword_lines)]

\* generic_visit of a section: only tests and keywords have a visitor
NormalizeNewLines_generic_visit(node, self, id) ==
    [node EXCEPT !.body =
        AsSeq([i \in 1..Len(node.body) |->
                  CASE node.body[i].type = "TestCase" ->
                          NormalizeNewLines_visit_TestCase(node.body[i], self, id)
                    [] node.body[i].type = "Keyword" ->
                          NormalizeNewLines_visit_Keyword(node.body[i], self, id)
                    [] OTHER -> node.body[i]])]

NormalizeNewLines_visit_Section(node, self, id) ==
    IF NodeId(node, id) = self.last_section
    THEN NormalizeNewLines_generic_visit(
             [Trimmed(node) EXCEPT !.body = Append(@, EmptyLine_from_params)], self, id)
    ELSE NormalizeNewLines_generic_visit(
             [Trimmed(node) EXCEPT !.body = @ \o Repeat(EmptyLine_from_params, self.section_lines)],
             self, id)

LastOf(body, id) == IF body # <<>> THEN NodeId(Last(body), id) ELSE <<>>

\* visit_TestCaseSection, visit_KeywordSection: the instance when visit_Section is called
EnterSection(node, self, id) ==
    CASE node.type = "TestCaseSection" -> [self EXCEPT !.last_test = LastOf(node.body, id)]
      [] node.type = "KeywordSection" -> [self EXCEPT !.last_keyword = LastOf(node.body, id)]
      [] OTHER -> self

\* generic_visit of the File: the sections and the instance after the visit
RECURSIVE NormalizeNewLines_sections(_, _, _)
NormalizeNewLines_sections(sections, self, id) ==
    IF sections = <<>> THEN [sections |-> <<>>, self |-> self]
    ELSE LET entered == EnterSection(Head(sections), self, id)
             rest == NormalizeNewLines_sections(Tail(sections), entered, id)
         IN  [sections |-> <<NormalizeNewLines_visit_Section(Head(sections), entered, id)>>
                           \o rest.sections,
              self |-> rest.self]

NormalizeNewLines_visit_File(node, self, id) ==
    LET entered == [self EXCEPT
                       !.templated = ~self.separate_templated_tests /\ is_templated(node),
                       !.last_section = LastOf(node.sections, id)]
        visited == NormalizeNewLines_sections(node.sections, entered, id)
    IN  [model |-> [node EXCEPT !.sections = visited.sections], self |-> visited.self]

(***************************************************************************)
(* ast.NodeTransformer.generic_visit: every child is replaced by what its  *)
(* visitor returns, a child whose visitor returns None is dropped, and an  *)
(* exception ends the traversal.                                           *)
(***************************************************************************)
VisitEach(nodes, Visit(_)) ==
    LET visited == AsSeq([i \in 1..Len(nodes) |-> Visit(nodes[i])])
    IN  IF \E i \in 1..Len(nodes) : visited[i] = Raised THEN RaisedList
        ELSE SelectSeq(visited, LAMBDA n : n # None)

\* a node with a body (File.sections for a File) after generic_visit
WithBody(node, body) == IF Raises(body) THEN Raised ELSE [node EXCEPT !.body = body]
WithSections(node, sections) ==
    IF Raises(sections) THEN Raised ELSE [node EXCEPT !.sections = sections]


\* ReplaceRunKeywordIf only defines visit_KeywordCall: every other node is
\* traversed by generic_visit.  The If block a visit returns is not visited.
RECURSIVE ReplaceRunKeywordIf_visit(_, _)
ReplaceRunKeywordIf_visit(node, fc) ==
    CASE node.type = "KeywordCall" -> ReplaceRunKeywordIf_visit_KeywordCall(node, fc)
      [] node.type = "File" ->
            WithSections(node, VisitEach(node.sections,
                                         LAMBDA n : ReplaceRunKeywordIf_visit(n, fc)))
      [] IsSection(node) \/ IsBlock(node) ->
            WithBody(node, VisitEach(node.body, LAMBDA n : ReplaceRunKeywordIf_visit(n, fc)))
      [] node.type = "If" ->
            LET body == VisitEach(node.body, LAMBDA n : ReplaceRunKeywordIf_visit(n, fc))
                orelse == IF node.orelse = None THEN None
                          ELSE ReplaceRunKeywordIf_visit(node.orelse, fc)
            IN  IF Raises(body) \/ orelse = Raised THEN Raised
                ELSE [node EXCEPT !.body = body, !.orelse = orelse]
      [] OTHER -> node

\* Token.SETTING_TOKENS
SETTING_TOKENS ==
    {"DOCUMENTATION", "SUITE_SETUP", "SUITE_TEARDOWN", "METADATA", "TEST_SETUP",
     "TEST_TEARDOWN", "TEST_TEMPLATE", "TEST_TIMEOUT", "FORCE_TAGS", "DEFAULT_TAGS",
     "LIBRARY", "RESOURCE", "VARIABLES", "SETUP", "TEARDOWN", "TEMPLATE", "TIMEOUT",
     "TAGS", "ARGUMENTS", "RETURN"}

\* Statement.type: the type of the token that makes the statement what it is
statement_type(node) ==
    IF data_tokens(node) = <<>> THEN "EOL" ELSE data_tokens(node)[1].type

(***************************************************************************)
(* transformers.py / transformers/DiscardEmptySections.py:                  *)
(* DiscardEmptySections.  The two differ in the default of                  *)
(* allow_only_comments only.                                                *)
(***************************************************************************)
\* a block starts on the line of its first statement and ends on the line of
\* its last
block_lineno(node) == lineno(Head(Statements(node)))
block_end_lineno(node) == end_lineno(Last(Statements(node)))

DiscardEmptySections(allow_only_comments) ==
    [name |-> "DiscardEmptySections", allow_only_comments |-> allow_only_comments]

\* check_if_empty, were a Comments section treated as any other section
DiscardEmptySections_check_if_empty_alike(node, self) ==
    LET anything_but == IF self.allow_only_comments
                        THEN {"EmptyLine"} ELSE {"Comment", "EmptyLine"}
    IN  IF \A i \in 1..Len(node.body) : node.body[i].type \in anything_but THEN None ELSE node

\* check_if_empty, visit_Section: the method check_start_end_line wraps
DiscardEmptySections_check_if_empty(node, self) ==
    LET anything_but == IF self.allow_only_comments \/ node.type = "CommentSection"
                        THEN {"EmptyLine"} ELSE {"Comment", "EmptyLine"}
    IN  IF \A i \in 1..Len(node.body) : node.body[i].type \in anything_but THEN None ELSE node

DiscardEmptySections_visit_Section(node, self, fc) ==
    IF node_outside_selection(block_lineno(node), block_end_lineno(node), fc) THEN node
    ELSE DiscardEmptySections_check_if_empty(node, self)

DiscardEmptySections_visit_File(node, self, fc) ==
    [node EXCEPT !.sections =
        SelectSeq(AsSeq([i \in 1..Len(node.sections) |->
                            DiscardEmptySections_visit_Section(node.sections[i], self, fc)]),
                  LAMBDA section : section # None)]

(***************************************************************************)
(* transformers.py: NormalizeSettingName, NormalizeSectionHeaderName        *)
(***************************************************************************)
\* NormalizeSettingName.normalize_name
NormalizeSettingName_normalize_name(name) == str_title(str_strip(normalize_whitespace(name)))

\* the first of the data tokens of a statement gets the value
WithName(node, value) ==
    LET at == CHOOSE i \in 1..Len(node.tokens) :
                  /\ node.tokens[i].type \notin NonData
                  /\ \A j \in 1..(i - 1) : node.tokens[j].type \in NonData
    IN  [node EXCEPT !.tokens[at].value = value]

\* the method check_start_end_line wraps
NormalizeSettingName_normalize(node) ==
    IF statement_type(node) \notin SETTING_TOKENS THEN node
    ELSE LET name == data_tokens(node)[1].value
         IN  IF name # <<>> /\ Head(name) = "["
             THEN WithName(node, <<"[">>
                                 \o NormalizeSettingName_normalize_name(
                                        SubSeq(name, 2, Len(name) - 1))
                                 \o <<"]">>)
             ELSE WithName(node, NormalizeSettingName_normalize_name(name))

NormalizeSettingName_visit_Statement(node, fc) ==
    IF node_outside_selection(lineno(node), end_lineno(node), fc) THEN node
    ELSE NormalizeSettingName_normalize(node)

\* SectionHeader.from_params(type=node.type).data_tokens[0].value
SectionHeader_from_params(type) ==
    CASE type = "SETTING_HEADER" -> S_Settings
      [] type = "VARIABLE_HEADER" -> S_Variables
      [] type = "TESTCASE_HEADER" -> S_TestCases
      [] type = "KEYWORD_HEADER" -> S_Keywords
      [] type = "COMMENT_HEADER" -> S_Comments

NormalizeSectionHeaderName(uppercase) ==
    [name |-> "NormalizeSectionHeaderName", uppercase |-> uppercase]

\* the method check_start_end_line wraps
NormalizeSectionHeaderName_normalize(node, self) ==
    LET normalized_name == SectionHeader_from_params(statement_type(node))
    IN  WithName(node, IF self.uppercase THEN str_upper(normalized_name) ELSE normalized_name)

NormalizeSectionHeaderName_visit_SectionHeader(node, self, fc) ==
    IF node_outside_selection(lineno(node), end_lineno(node), fc) THEN node
    ELSE NormalizeSectionHeaderName_normalize(node, self)

\* generic_visit: NormalizeSettingName visits every statement,
\* NormalizeSectionHeaderName the section headers
RECURSIVE Normalize_generic_visit(_, _, _)
Normalize_generic_visit(node, self, fc) ==
    LET Visit(child) == Normalize_generic_visit(child, self, fc)
        each(nodes) == AsSeq([i \in 1..Len(nodes) |-> Visit(nodes[i])])
    IN  CASE node.type = "File" -> [node EXCEPT !.sections = each(node.sections)]
          [] IsSection(node) \/ IsBlock(node) ->
                [node EXCEPT !.header = Visit(node.header), !.body = each(node.body)]
          [] node.type = "If" ->
                [node EXCEPT !.header = Visit(node.header),
                             !.body = each(node.body),
                             !.orelse = IF node.orelse = None THEN None ELSE Visit(node.orelse),
                             !.end = IF node.end = None THEN None ELSE Visit(node.end)]
          [] self.name = "NormalizeSettingName" -> NormalizeSettingName_visit_Statement(node, fc)
          [] node.type = "SectionHeader" ->
                NormalizeSectionHeaderName_visit_SectionHeader(node, self, fc)
          [] OTHER -> node

(***************************************************************************)
(* transformers/RemoveEmptySettings.py: RemoveEmptySettings,                *)
(* FindSuiteSettings                                                        *)
(***************************************************************************)
\* formatting_config.separator
separator(fc) == Spaces(fc.space_count)

\* RemoveEmptySettings.__init__
RemoveEmptySettings(work_mode, more_explicit) ==
    IF work_mode \notin {"overwrite_ok", "always"} THEN InvalidParameterValueError
    ELSE [name |-> "RemoveEmptySettings",
          work_mode |-> work_mode,
          more_explicit |-> more_explicit,
          overwritten_settings |-> {},
          child_types |-> {"SETUP", "TEARDOWN", "TIMEOUT", "TEMPLATE", "TAGS"}]

\* the method check_start_end_line wraps
RemoveEmptySettings_remove_empty(node, self, fc) ==
    IF statement_type(node) \notin SETTING_TOKENS \/ Len(data_tokens(node)) # 1 THEN node
    ELSE IF \/ statement_type(node) \notin self.child_types
            \/ self.work_mode = "always"
            \/ statement_type(node) \notin self.overwritten_settings
    THEN None
    ELSE IF self.more_explicit
    THEN [node EXCEPT !.tokens =
             <<Token("SEPARATOR", IF node.tokens[1].type = "SEPARATOR"
                                  THEN node.tokens[1].value ELSE <<>>),
               data_tokens(node)[1],
               Token("SEPARATOR", separator(fc)),
               Token("ARGUMENT", S_NONE),
               Token("EOL", S_EOL)>>]
    ELSE node

RemoveEmptySettings_visit_Statement(node, self, fc) ==
    IF node_outside_selection(lineno(node), end_lineno(node), fc) THEN node
    ELSE RemoveEmptySettings_remove_empty(node, self, fc)

\* generic_visit: every statement, headers included, goes through visit_Statement
RECURSIVE RemoveEmptySettings_generic_visit(_, _, _)
RemoveEmptySettings_generic_visit(node, self, fc) ==
    LET Visit(child) == RemoveEmptySettings_generic_visit(child, self, fc)
        kept(nodes) == SelectSeq(AsSeq([i \in 1..Len(nodes) |-> Visit(nodes[i])]),
                                 LAMBDA child : child # None)
    IN  CASE node.type = "File" -> [node EXCEPT !.sections = kept(node.sections)]
          [] IsSection(node) \/ IsBlock(node) ->
                [node EXCEPT !.header = Visit(node.header), !.body = kept(node.body)]
          [] node.type = "If" ->
                [node EXCEPT !.header = Visit(node.header),
                             !.body = kept(node.body),
                             !.orelse = IF node.orelse = None THEN None ELSE Visit(node.orelse),
                             !.end = IF node.end = None THEN None ELSE Visit(node.end)]
          [] OTHER -> RemoveEmptySettings_visit_Statement(node, self, fc)

\* FindSuiteSettings: the visitors and the type each of them records
SuiteSettings ==
    {<<"TestSetup", "SETUP">>, <<"TestTeardown", "TEARDOWN">>, <<"TestTemplate", "TEMPLATE">>,
     <<"TestTimeout", "TIMEOUT">>, <<"DefaultTags", "TAGS">>}

\* find_overwritten_settings, were the finder to find no suite setting
find_overwritten_settings_none(node) == {}

find_overwritten_settings(node) ==
    {setting[2] : setting \in
        {setting \in SuiteSettings :
            \E i \in 1..Len(Statements(node)) :
                /\ Statements(node)[i].type = setting[1]
                /\ Len(data_tokens(Statements(node)[i])) # 1}}

RemoveEmptySettings_visit_File(node, self, fc) ==
    LET found == IF self.work_mode = "overwrite_ok"
                 THEN [self EXCEPT !.overwritten_settings = find_overwritten_settings(node)]
                 ELSE self
    IN  [model |-> RemoveEmptySettings_generic_visit(node, found, fc),
         self |-> [found EXCEPT !.overwritten_settings = {}]]

(***************************************************************************)
(* transformers/AlignVariablesSection.py: AlignVariablesSection, with       *)
(* robotidy.utils.round_to_four, tokens_by_lines, left_align and            *)
(* is_blank_multiline.  A statement reshaped by tokens_by_lines is a record *)
(* (type |-> "lines", lines); min_width is <<>> (None) or <<width>>.        *)
(***************************************************************************)
\* robotidy.utils.round_to_four: the least multiple of four not below the number
round_to_four(number) == IF number % 4 = 0 THEN number ELSE number + 4 - (number % 4)

\* Statement.lines: the tokens of each line, a line ends with its EOL token
RECURSIVE LinesOf(_, _)
LinesOf(tokens, line) ==
    IF tokens = <<>> THEN (IF line = <<>> THEN <<>> ELSE <<line>>)
    ELSE IF Head(tokens).type = "EOL"
    THEN <<Append(line, Head(tokens))>> \o LinesOf(Tail(tokens), <<>>)
    ELSE LinesOf(Tail(tokens), Append(line, Head(tokens)))

\* robotidy.utils.tokens_by_lines: one row for each line, without its separators
tokens_by_lines(node) ==
    LET lines == LinesOf(node.tokens, <<>>)
    IN  AsSeq([i \in 1..Len(lines) |->
                  SelectSeq(lines[i], LAMBDA token : token.type \notin {"SEPARATOR", "EOS"})])

\* str.lstrip(" \t")
RECURSIVE str_lstrip_blank(_)
str_lstrip_blank(value) ==
    IF value # <<>> /\ Head(value) \in {" ", "\t"} THEN str_lstrip_blank(Tail(value)) ELSE value

\* robotidy.utils.left_align: the statement without the blank its first token starts with
left_align(node) ==
    IF node.tokens = <<>> THEN node
    ELSE from_tokens([node.tokens EXCEPT ![1].value = str_lstrip_blank(@)])

\* robotidy.utils.is_blank_multiline: "..." followed by an empty value
is_blank_multiline(line) ==
    /\ Len(line) = 3
    /\ line[1].type = "CONTINUATION"
    /\ line[2].type = "ARGUMENT"
    /\ line[2].value = <<>>

\* str.split(sep) of a string that is not empty
RECURSIVE str_split(_, _)
str_split(s, sep) ==
    IF \A i \in 1..Len(s) : s[i] # sep THEN <<s>>
    ELSE LET at == CHOOSE i \in 1..Len(s) : s[i] = sep /\ \A j \in 1..(i - 1) : s[j] # sep
         IN  <<SubSeq(s, 1, at - 1)>> \o str_split(SubSeq(s, at + 1, Len(s)), sep)

S_dict_type == <<"d","i","c","t">>
S_list_type == <<"l","i","s","t">>
S_scalar_type == <<"s","c","a","l","a","r">>

\* parse_skip_types: the names allow_types knows, each with its sigil
allow_types == {<<S_dict_type, "&">>, <<S_list_type, "@">>, <<S_scalar_type, "$">>}

\* parse_skip_types of names that allow_types knows: the set of their sigils
parse_skip_types(skip_types) ==
    IF skip_types = <<>> THEN {}
    ELSE {known[2] : known \in
             {known \in allow_types :
                 \E i \in 1..Len(str_split(skip_types, ",")) :
                     str_split(skip_types, ",")[i] = known[1]}}

\* __init__: parse_skip_types raises for a name allow_types does not know
AlignVariablesSection(up_to_column, skip_types, min_width) ==
    IF /\ skip_types # <<>>
       /\ \E i \in 1..Len(str_split(skip_types, ",")) :
              \A known \in allow_types : str_split(skip_types, ",")[i] # known[1]
    THEN InvalidParameterValueError
    ELSE [name |-> "AlignVariablesSection",
          up_to_column |-> up_to_column - 1,
          min_width |-> min_width,
          skip_types |-> parse_skip_types(skip_types)]

\* Variable.name: the variable without its assignment marker
Variable_name(node) ==
    LET given == get_tokens(node, "VARIABLE")
        name == IF given = <<>> THEN <<>> ELSE given[1].value
    IN  IF name # <<>> /\ Last(name) = "=" THEN str_rstrip(Front(name)) ELSE name

\* should_parse, were no type skipped
should_parse_any(node, self) == TRUE

should_parse(node, self) ==
    IF Variable_name(node) = <<>> THEN TRUE
    ELSE Variable_name(node)[1] \notin self.skip_types

\* the rows of the statements that are aligned
RowsOf(statements) ==
    Concat(AsSeq([i \in 1..Len(statements) |->
                     IF statements[i].type = "lines" THEN statements[i].lines ELSE <<>>]))

\* create_look_up, were the longest value of a column not rounded
create_look_up_exact(statements, self) ==
    LET rows == RowsOf(statements)
        up_to(line) == IF self.up_to_column = -1 THEN Len(line)
                       ELSE IF self.up_to_column < 0 THEN Max(Len(line) + self.up_to_column, 0)
                       ELSE self.up_to_column
        seen(index) == {k \in 1..Len(rows) : index < up_to(rows[k]) /\ index < Len(rows[k])}
        widest == Max(0, Len(rows[CHOOSE k \in 1..Len(rows) :
                                     \A j \in 1..Len(rows) : Len(rows[j]) <= Len(rows[k])]))
        longest(index) ==
            LET lengths == {Len(rows[k][index + 1].value) : k \in seen(index)}
            IN  CHOOSE length \in lengths : \A other \in lengths : other <= length
    IN  [index \in {i \in 0..(widest - 1) : seen(i) # {}} |-> longest(index)]

\* create_look_up: for every column the longest value, rounded
create_look_up(statements, self) ==
    LET rows == RowsOf(statements)
        up_to(line) == IF self.up_to_column = -1 THEN Len(line)
                       ELSE IF self.up_to_column < 0 THEN Max(Len(line) + self.up_to_column, 0)
                       ELSE self.up_to_column
        seen(index) == {k \in 1..Len(rows) : index < up_to(rows[k]) /\ index < Len(rows[k])}
        widest == Max(0, Len(rows[CHOOSE k \in 1..Len(rows) :
                                     \A j \in 1..Len(rows) : Len(rows[j]) <= Len(rows[k])]))
        longest(index) ==
            LET lengths == {Len(rows[k][index + 1].value) : k \in seen(index)}
            IN  CHOOSE length \in lengths : \A other \in lengths : other <= length
    IN  [index \in {i \in 0..(widest - 1) : seen(i) # {}} |-> round_to_four(longest(index))]

calc_separator(index, up_to, token, look_up, self, fc) ==
    IF index < up_to
    THEN IF self.min_width # <<>> /\ self.min_width[1] # 0
         THEN Spaces(Max(self.min_width[1] - Len(token.value), fc.space_count))
         ELSE Spaces(look_up[index] - Len(token.value) + 4)
    ELSE Spaces(fc.space_count)

\* align_rows: the tokens of a row
align_row(line, look_up, self, fc) ==
    IF is_blank_multiline(line)
    THEN [line EXCEPT ![Len(line)].value = str_lstrip_blank(@)]
    ELSE LET up_to == IF self.up_to_column # -1 THEN self.up_to_column ELSE Len(line) - 2
         IN  Concat(AsSeq([k \in 1..(Len(line) - 2) |->
                              <<line[k],
                                Token("SEPARATOR",
                                      calc_separator(k - 1, up_to, line[k], look_up, self, fc))>>]))
             \o <<[line[Len(line) - 1] EXCEPT !.value = str_strip(@)], line[Len(line)]>>

align_rows(statements, look_up, self, fc) ==
    AsSeq([i \in 1..Len(statements) |->
              IF statements[i].type # "lines" THEN statements[i]
              ELSE from_tokens(
                       Concat(AsSeq([k \in 1..Len(statements[i].lines) |->
                                        align_row(statements[i].lines[k], look_up, self, fc)])))])

\* visit_VariableSection: the list statements, the rows of a child that is
\* aligned being a list of lines
AlignVariablesSection_statements(node, self, fc) ==
    AsSeq([i \in 1..Len(node.body) |->
              LET child == node.body[i]
              IN  IF node_outside_selection(lineno(child), end_lineno(child), fc)
                  THEN child
                  ELSE IF statement_type(child) \in {"EOL", "COMMENT"}
                  THEN left_align(child)
                  ELSE IF should_parse(child, self)
                  THEN [type |-> "lines", lines |-> tokens_by_lines(child)]
                  ELSE child])

AlignVariablesSection_visit_VariableSection(node, self, fc) ==
    IF node_outside_selection(block_lineno(node), block_end_lineno(node), fc) THEN node
    ELSE LET statements == AlignVariablesSection_statements(node, self, fc)
         IN  IF \A i \in 1..Len(statements) : statements[i].type # "lines"
             THEN [node EXCEPT !.body = statements]
             ELSE [node EXCEPT !.body =
                      align_rows(statements, create_look_up(statements, self), self, fc)]

AlignVariablesSection_visit_File(node, self, fc) ==
    [node EXCEPT !.sections =
        AsSeq([i \in 1..Len(node.sections) |->
                  IF node.sections[i].type = "VariableSection"
                  THEN AlignVariablesSection_visit_VariableSection(node.sections[i], self, fc)
                  ELSE node.sections[i]])]

(***************************************************************************)
(* The models the parser hands over                                        *)
(***************************************************************************)
\* tokens from <<type, value>> pairs, placed on a line from a column on
RECURSIVE Place(_, _, _)
Place(pairs, line, col) ==
    IF pairs = <<>> THEN <<>>
    ELSE <<TokenAt(Head(pairs)[1], Head(pairs)[2], line, col)>>
         \o Place(Tail(pairs), line, col + Len(Head(pairs)[2]))

RECURSIVE Cells(_, _)
Cells(type, values) ==
    IF values = <<>> THEN <<>>
    ELSE <<<<"SEPARATOR", Spaces(2)>>, <<type, Head(values)>>>> \o Cells(type, Tail(values))

StatementAt(type, pairs, line) == [type |-> type, tokens |-> Place(pairs, line, 0)]

\* "    ${a}  ${b} =  Run Keyword If  arg  arg"
KeywordCallAt(line, assign_values, keyword_value, arg_values) ==
    StatementAt("KeywordCall",
                <<<<"SEPARATOR", Spaces(4)>>>>
                \o (IF assign_values = <<>> THEN <<>>
                    ELSE Tail(Cells("ASSIGN", assign_values)) \o <<<<"SEPARATOR", Spaces(2)>>>>)
                \o (IF keyword_value = <<>> THEN <<>> ELSE <<<<"KEYWORD", keyword_value>>>>)
                \o Cells("ARGUMENT", arg_values)
                \o <<<<"EOL", S_EOL>>>>,
                line)

\* "${a} =  1"
VariableAt(line, name, values) ==
    StatementAt("Variable", <<<<"VARIABLE", name>>>> \o Cells("ARGUMENT", values)
                            \o <<<<"EOL", S_EOL>>>>, line)

\* "|   | ${a}  = | Kw |": a cell of a pipe separated line keeps its inner spaces
PipeCallAt(line, assign_values, keyword_value) ==
    StatementAt("KeywordCall",
                <<<<"SEPARATOR", <<"|", " ", " ", " ">>>>, <<"SEPARATOR", <<"|", " ">>>>>>
                \o AsSeq([i \in 1..(2 * Len(assign_values)) |->
                             IF i % 2 = 1 THEN <<"ASSIGN", assign_values[(i + 1) \div 2]>>
                             ELSE <<"SEPARATOR", <<" ", "|", " ">>>>])
                \o <<<<"KEYWORD", keyword_value>>, <<"SEPARATOR", <<" ", "|">>>>,
                     <<"EOL", S_EOL>>>>,
                line)

\* "| ${a}  = | 1 |"
PipeVariableAt(line, name, value) ==
    StatementAt("Variable",
                <<<<"SEPARATOR", <<"|", " ">>>>, <<"VARIABLE", name>>,
                  <<"SEPARATOR", <<" ", "|", " ">>>>, <<"ARGUMENT", value>>,
                  <<"SEPARATOR", <<" ", "|">>>>, <<"EOL", S_EOL>>>>,
                line)

EmptyLineAt(line) == StatementAt("EmptyLine", <<<<"EOL", S_EOL>>>>, line)

SectionHeaderAt(type, name, line) ==
    StatementAt("SectionHeader", <<<<type, name>>, <<"EOL", S_EOL>>>>, line)

Section(type, header, body) == [type |-> type, header |-> header, body |-> body]

Block(type, name, line, body) ==
    [type |-> type,
     header |-> StatementAt(type \o "Name", <<<<type \o "_NAME", name>>, <<"EOL", S_EOL>>>>, line),
     body |-> body]

File(sections) == [type |-> "File", sections |-> sections]

S_RunKeywordIf == <<"R","u","n"," ","K","e","y","w","o","r","d"," ","I","f">>
S_RunKeywords == <<"R","u","n"," ","K","e","y","w","o","r","d","s">>
S_Kw == <<"K","w">>
S_Log == <<"L","o","g">>
S_var_a == <<"$","{","a","}">>
S_var_b_eq == <<"$","{","b","}","=">>

S_Documentation == <<"D","o","c","u","m","e","n","t","a","t","i","o","n">>
S_TestTemplate == <<"T","e","s","t"," ","T","e","m","p","l","a","t","e">>
S_TestTimeout == <<"T","e","s","t"," ","T","i","m","e","o","u","t">>
S_Timeout == <<"[","T","i","m","e","o","u","t","]">>
S_1 == <<"1">>
S_doc == <<"d","o","c">>
S_Test == <<"T","e","s","t">>

(***************************************************************************)
(* A file as the parser reads it.  A line is <<class, type, cells>>: the    *)
(* header of a section, the name of a test or keyword, or a statement; the  *)
(* cells are the <<type, value>> pairs of its tokens.  A section runs to    *)
(* the next header; in it a test or keyword runs to the next name, and the  *)
(* lines before the first name are statements of the section.               *)
(***************************************************************************)
EolCell == <<"EOL", S_EOL>>
Sep2 == <<"SEPARATOR", Spaces(2)>>
Sep4 == <<"SEPARATOR", Spaces(4)>>

L_Settings == <<"section", "SettingSection", <<<<"SETTING_HEADER", S_Settings>>, EolCell>>>>
L_Variables == <<"section", "VariableSection", <<<<"VARIABLE_HEADER", S_Variables>>, EolCell>>>>
L_TestCases == <<"section", "TestCaseSection", <<<<"TESTCASE_HEADER", S_TestCases>>, EolCell>>>>
L_Keywords == <<"section", "KeywordSection", <<<<"KEYWORD_HEADER", S_Keywords>>, EolCell>>>>
L_Test == <<"block", "TestCase", <<<<"TESTCASE NAME", S_Test>>, EolCell>>>>
L_Keyword == <<"block", "Keyword", <<<<"KEYWORD NAME", S_Kw>>, EolCell>>>>
L_Blank == <<"statement", "EmptyLine", <<EolCell>>>>
L_Call == <<"statement", "KeywordCall", <<Sep4, <<"KEYWORD", S_Kw>>, EolCell>>>>
L_Doc == <<"statement", "Documentation",
           <<<<"DOCUMENTATION", S_Documentation>>, Sep2, <<"ARGUMENT", S_doc>>, EolCell>>>>
L_Template == <<"statement", "TestTemplate",
                <<<<"TEST_TEMPLATE", S_TestTemplate>>, Sep2, <<"NAME", S_Kw>>, EolCell>>>>
L_NoTemplate == <<"statement", "TestTemplate", <<<<"TEST_TEMPLATE", S_TestTemplate>>, EolCell>>>>

L_TestTimeout == <<"statement", "TestTimeout",
                   <<<<"TEST_TIMEOUT", S_TestTimeout>>, Sep2, <<"ARGUMENT", S_1>>, EolCell>>>>
L_NoTestTimeout == <<"statement", "TestTimeout", <<<<"TEST_TIMEOUT", S_TestTimeout>>, EolCell>>>>
L_Timeout == <<"statement", "Timeout", <<Sep4, <<"TIMEOUT", S_Timeout>>, EolCell>>>>
L_TimeoutSet == <<"statement", "Timeout",
                  <<Sep4, <<"TIMEOUT", S_Timeout>>, Sep2, <<"ARGUMENT", S_1>>, EolCell>>>>
L_NoDoc == <<"statement", "Documentation", <<<<"DOCUMENTATION", S_Documentation>>, EolCell>>>>
L_Assign(target) ==
    <<"statement", "KeywordCall", <<Sep4, <<"ASSIGN", target>>, Sep2, <<"KEYWORD", S_Kw>>, EolCell>>>>
L_Variable(name) ==
    <<"statement", "Variable", <<<<"VARIABLE", name>>, Sep2, <<"ARGUMENT", S_1>>, EolCell>>>>

\* the members of a set of integers in ascending order
Ordered(S) ==
    AsSeq([i \in 1..Cardinality(S) |-> CHOOSE x \in S : Cardinality({y \in S : y < x}) = i - 1])

LineStatement(lines, i) == StatementAt(lines[i][2], lines[i][3], i)

LineStatements(lines, from, to) ==
    AsSeq([k \in 1..Max(to - from + 1, 0) |-> LineStatement(lines, from + k - 1)])

\* The statements of a test or keyword from the index on, up to the ELSE IF,
\* ELSE or END that ends the branch they are in, with IF ... END made an If
\* block whose ELSE IF and ELSE branches are linked by orelse.
RECURSIVE ParseItems(_, _)
RECURSIVE ParseBranch(_, _)
ParseItems(statements, i) ==
    IF i > Len(statements) \/ statements[i].type \in {"ElseIfHeader", "ElseHeader", "End"}
    THEN [items |-> <<>>, next |-> i]
    ELSE IF statements[i].type = "IfHeader"
    THEN LET branch == ParseBranch(statements, i)
             closed == branch.next <= Len(statements) /\ statements[branch.next].type = "End"
             node == IF closed THEN [branch.node EXCEPT !.end = statements[branch.next]]
                     ELSE branch.node
             rest == ParseItems(statements, IF closed THEN branch.next + 1 ELSE branch.next)
         IN  [items |-> <<node>> \o rest.items, next |-> rest.next]
    ELSE LET rest == ParseItems(statements, i + 1)
         IN  [items |-> <<statements[i]>> \o rest.items, next |-> rest.next]

ParseBranch(statements, i) ==
    LET body == ParseItems(statements, i + 1)
        more == /\ body.next <= Len(statements)
                /\ statements[body.next].type \in {"ElseIfHeader", "ElseHeader"}
        orelse == ParseBranch(statements, body.next)
    IN  [node |-> [type |-> "If", header |-> statements[i], body |-> body.items,
                   orelse |-> IF more THEN orelse.node ELSE None, end |-> None],
         next |-> IF more THEN orelse.next ELSE body.next]

\* the test or keyword named on the line start, with the lines up to stop
ParseBlock(lines, start, stop) ==
    [type |-> lines[start][2],
     header |-> StatementAt(lines[start][2] \o "Name", lines[start][3], start),
     body |-> ParseItems(LineStatements(lines, start + 1, stop), 1).items]

\* the section whose header is on the line start, with the lines up to stop
ParseSection(lines, start, stop) ==
    LET names == Ordered({i \in (start + 1)..stop : lines[i][1] = "block"})
        until(k) == IF k = Len(names) THEN stop ELSE names[k + 1] - 1
    IN  [type |-> lines[start][2],
         header |-> StatementAt("SectionHeader", lines[start][3], start),
         body |-> IF names = <<>> THEN LineStatements(lines, start + 1, stop)
                  ELSE LineStatements(lines, start + 1, names[1] - 1)
                       \o AsSeq([k \in 1..Len(names) |-> ParseBlock(lines, names[k], until(k))])]

\* robot.api.get_model on a file that starts with a section header
Parse(lines) ==
    LET heads == Ordered({i \in 1..Len(lines) : lines[i][1] = "section"})
        until(k) == IF k = Len(heads) THEN Len(lines) ELSE heads[k + 1] - 1
    IN  File(AsSeq([k \in 1..Len(heads) |-> ParseSection(lines, heads[k], until(k))]))

\* a file with one keyword whose body is the given statements, from line 3 on
KeywordFile(body) ==
    File(<<Section("KeywordSection", SectionHeaderAt("KEYWORD_HEADER", S_Keywords, 1),
                   <<Block("Keyword", S_Kw, 2, body)>>)>>)

S_var_nested == <<"$","{","a","$","{","b","}","}">>

\* a file with the given variables and one keyword that assigns the given targets
AssignFile(variables, targets) ==
    LET n == Len(variables)
    IN  File((IF variables = <<>> THEN <<>>
              ELSE <<Section("VariableSection",
                             SectionHeaderAt("VARIABLE_HEADER", S_Variables, 1),
                             AsSeq([i \in 1..n |-> PipeVariableAt(i + 1, variables[i], S_1)]))>>)
             \o (IF targets = <<>> THEN <<>>
                 ELSE <<Section("KeywordSection",
                                SectionHeaderAt("KEYWORD_HEADER", S_Keywords, n + 2),
                                <<Block("Keyword", S_Kw, n + 3,
                                        AsSeq([i \in 1..Len(targets) |->
                                                  PipeCallAt(n + 3 + i, <<targets[i]>>,
                                                             S_Kw)]))>>)>>))

SeqsUpTo(S, n) == UNION {[1..k -> S] : k \in 0..n}


(***************************************************************************)
(* The run: every transformer visits the model of a file, in order         *)
(***************************************************************************)
\* transformer.visit(model): the model after the visit (Raised when the
\* visit raised) and the transformer instance after it
visit(self, node, fc, id) ==
    CASE self.name = "ReplaceRunKeywordIf" ->
            [model |-> ReplaceRunKeywordIf_visit(node, fc), self |-> self]
      [] self.name = "AssignmentNormalizer" -> AssignmentNormalizer_visit_File(node, self)
      [] self.name = "NormalizeNewLines" -> NormalizeNewLines_visit_File(node, self, id)
      [] self.name = "RemoveEmptySettings" -> RemoveEmptySettings_visit_File(node, self, fc)
      [] self.name = "AlignVariablesSection" ->
            [model |-> AlignVariablesSection_visit_File(node, self, fc), self |-> self]
      [] self.name = "DiscardEmptySections" ->
            [model |-> DiscardEmptySections_visit_File(node, self, fc), self |-> self]
      [] self.name \in {"NormalizeSettingName", "NormalizeSectionHeaderName"} ->
            [model |-> Normalize_generic_visit(node, self, fc), self |-> self]

Transform ==
    /\ pc = "run"
    /\ LET ran == visit(transformers[pos], model, formatting_config, serial)
       IN  IF ran.model = Raised
           THEN /\ pc' = "raised"
                /\ UNCHANGED <<model, before, transformers, pos>>
           ELSE /\ model' = ran.model
                /\ before' = model
                /\ transformers' = [transformers EXCEPT ![pos] = ran.self]
                /\ pos' = pos + 1
                /\ pc' = IF pos = Len(transformers) THEN "done" ELSE "run"
    /\ UNCHANGED <<formatting_config, allowed_transformers, sources, serial, source, previous,
                   first, configs, wrote>>

\* the next file is handed to the same transformer instances
LoadFile ==
    /\ pc = "done"
    /\ sources # <<>>
    /\ source' = Head(sources)
    /\ model' = Head(sources)
    /\ before' = Head(sources)
    /\ previous' = source
    /\ sources' = Tail(sources)
    /\ serial' = serial + 1
    /\ pos' = 1
    /\ pc' = "run"
    /\ UNCHANGED <<formatting_config, allowed_transformers, transformers, first, configs,
                   wrote>>

\* the state when the first of the given models is handed to the transformers
Start(fc, instances, models) ==
    /\ formatting_config = fc
    /\ allowed_transformers = <<>>
    /\ transformers = instances
    /\ sources = Tail(models)
    /\ serial = 1
    /\ source = Head(models)
    /\ previous = None
    /\ model = Head(models)
    /\ before = Head(models)
    /\ pos = 1
    /\ first = None
    /\ configs = <<>>
    /\ wrote = <<>>
    /\ pc = "run"

DefaultFormatting == [space_count |-> 4, window |-> <<>>]

(***************************************************************************)
(* ReplaceRunKeywordIf on one keyword call                                 *)
(***************************************************************************)
\* Argument lists: every list of at most MaxArgs values, and every chain of
\* an IF branch and at most MaxBranches ELSE IF / ELSE branches.
MaxArgs == 5
MaxBranches == 2

S_run_keywords == <<"r","u","n"," ","k","e","y","w","o","r","d","s">>
ArgValues == {S_Kw, S_ELSE, S_ELSE_IF, S_RunKeywords, S_run_keywords, S_AND}
AssignChoices == {<<>>, <<S_var_a, S_var_b_eq>>}

IfBranches == {<<S_Kw, S_Kw>>, <<S_Kw, S_Kw, S_Kw>>,
               <<S_Kw, S_RunKeywords, S_Kw, S_AND, S_Kw, S_Kw>>}
ElseBranches == {<<S_ELSE_IF, S_Kw, S_Kw>>, <<S_ELSE_IF, S_Kw>>,
                 <<S_ELSE_IF, S_Kw, S_run_keywords, S_Kw, S_Kw, S_AND, S_Kw>>,
                 <<S_ELSE, S_Kw>>, <<S_ELSE, S_Kw, S_Kw>>,
                 <<S_ELSE, S_RunKeywords, S_Kw, S_AND, S_Kw>>,
                 <<S_ELSE, S_RunKeywords, S_Kw, S_AND>>}


Chains == {head \o Concat(rest) :
              head \in IfBranches, rest \in SeqsUpTo(ElseBranches, MaxBranches)}

OtherCalls == {KeywordCallAt(3, targets, S_Log, args) :
                  targets \in AssignChoices, args \in {<<>>, <<S_Kw, S_ELSE, S_Kw>>}}
              \cup {KeywordCallAt(3, <<S_var_a>>, <<>>, <<>>)}

RunKeywordIfCalls ==
    {KeywordCallAt(3, targets, S_RunKeywordIf, args) :
        targets \in AssignChoices, args \in SeqsUpTo(ArgValues, MaxArgs) \cup Chains}

InitRunKeywordIf ==
    \E call \in RunKeywordIfCalls \cup OtherCalls :
        Start(DefaultFormatting, <<[name |-> "ReplaceRunKeywordIf"]>>,
              <<KeywordFile(<<call>>)>>)

SpecRunKeywordIf == InitRunKeywordIf /\ [][Transform]_vars


(***************************************************************************)
(* ReplaceRunKeywordIf: what is stated about create_branched               *)
(***************************************************************************)
SourceCall == source.sections[1].body[1].body[1]
ResultNode == model.sections[1].body[1].body[1]

SourceArgs == get_tokens(SourceCall, "ARGUMENT")
SourceAssign == get_tokens(SourceCall, "ASSIGN")
IsRunKeywordIf == keyword(SourceCall) # <<>> /\ normalize_name(keyword(SourceCall)) = S_runkeywordif
Visited == pc \in {"done", "raised"}
Rewritten == pc = "done" /\ ResultNode.type = "If"

\* the positions of the given delimiters in a list of tokens, in order
Positions(tokens, delimeters) ==
    LET at == {i \in 1..Len(tokens) : tokens[i].value \in delimeters}
        nth[k \in 1..Cardinality(at)] ==
            CHOOSE i \in at : Cardinality({j \in at : j < i}) = k - 1
    IN  AsSeq(nth)

\* the pieces a list of tokens falls into when it is cut before each delimiter
Pieces(tokens, delimeters) ==
    LET cuts == Positions(tokens, delimeters)
        from(k) == IF k = 0 THEN 1 ELSE cuts[k]
        upto(k) == IF k = Len(cuts) THEN Len(tokens) ELSE cuts[k + 1] - 1
    IN  AsSeq([k \in 1..(Len(cuts) + 1) |-> SubSeq(tokens, from(k - 1), upto(k - 1))])

Branches == Pieces(SourceArgs, {S_ELSE, S_ELSE_IF})

\* the keyword and arguments of a branch: what follows its condition or ELSE
BranchKind(branch) ==
    IF branch # <<>> /\ branch[1].value = S_ELSE THEN "ELSE"
    ELSE IF branch # <<>> /\ branch[1].value = S_ELSE_IF THEN "ELSE IF"
    ELSE "IF"

BranchCall(branch) ==
    IF BranchKind(branch) = "ELSE IF" THEN SubSeq(branch, 3, Len(branch))
    ELSE SubSeq(branch, 2, Len(branch))

IsRunKeywords(tokens) == tokens # <<>> /\ normalize_name(tokens[1].value) = S_runkeywords

\* a Run Keywords branch with an AND-separated segment that holds no keyword
EmptySegment(branch) ==
    /\ IsRunKeywords(BranchCall(branch))
    /\ \E piece \in {Pieces(BranchCall(branch), {S_AND})[k] :
                        k \in 1..Len(Pieces(BranchCall(branch), {S_AND}))} : Len(piece) < 2

\* the call violates an arity precondition of the rewrite
Malformed ==
    \/ Len(SourceArgs) < 2
    \/ Branches[1] = <<>>
    \/ \E k \in 1..Len(Branches) :
          \/ BranchKind(Branches[k]) = "IF" /\ Len(Branches[k]) < 2
          \/ BranchKind(Branches[k]) = "ELSE IF" /\ Len(Branches[k]) < 3
          \/ BranchKind(Branches[k]) = "ELSE" /\ Len(Branches[k]) < 2
          \/ EmptySegment(Branches[k])

\* the If nodes linked by orelse, from the outermost on
RECURSIVE OrelseChain(_)
OrelseChain(node) ==
    IF node = None THEN <<>> ELSE <<node>> \o OrelseChain(node.orelse)

HeaderKinds(chain) == AsSeq([k \in 1..Len(chain) |-> chain[k].header.type])

\* C3: a Run Keyword If call that violates a branch arity precondition is
\* returned unchanged: the visit does not raise and builds no If block.
C3_MalformedPassThrough ==
    (Visited /\ IsRunKeywordIf /\ Malformed) => (pc = "done" /\ ResultNode = SourceCall)

\* C4: a call that passes the arity checks, with k ELSE IF delimiters and at
\* most one ELSE, becomes a chain IF, k times ELSE IF, then ELSE if and only
\* if an ELSE delimiter is present, with one END, on the first node.
ExpectedHeaders ==
    <<"IfHeader">>
    \o AsSeq([k \in 1..Len(Positions(SourceArgs, {S_ELSE_IF})) |-> "ElseIfHeader"])
    \o (IF Positions(SourceArgs, {S_ELSE}) = <<>> THEN <<>> ELSE <<"ElseHeader">>)

C4_BranchCount ==
    (Visited /\ IsRunKeywordIf /\ ~Malformed /\ Len(Positions(SourceArgs, {S_ELSE})) <= 1)
    => /\ Rewritten
       /\ HeaderKinds(OrelseChain(ResultNode)) = ExpectedHeaders
       /\ ResultNode.end # None
       /\ \A k \in 2..Len(OrelseChain(ResultNode)) : OrelseChain(ResultNode)[k].end = None


\* the statements generated for the branches, in order
RECURSIVE Bodies(_)
Bodies(chain) == IF chain = <<>> THEN <<>> ELSE Head(chain).body \o Bodies(Tail(chain))

Generated == Bodies(OrelseChain(ResultNode))

\* C5: when the call has assignment targets, every generated keyword call
\* begins, after its indentation, with those targets in their order, followed
\* by the keyword name and its arguments.
C5_AssignmentPropagation ==
    (Rewritten /\ SourceAssign # <<>>)
    => \A k \in 1..Len(Generated) :
          LET st == Generated[k]
              data == data_tokens(st)
              n == Len(SourceAssign)
          IN  /\ st.type = "KeywordCall"
              /\ st.tokens[1].type = "SEPARATOR"
              /\ st.tokens[1].value = SourceCall.tokens[1].value \o Spaces(formatting_config.space_count)
              /\ st.tokens[2] = SourceAssign[1]
              /\ Len(data) > n
              /\ SubSeq(data, 1, n) = SourceAssign
              /\ data[n + 1].type = "KEYWORD"
              /\ \A i \in (n + 2)..Len(data) :
                    data[i].type = "ARGUMENT" /\ \E j \in 1..Len(SourceArgs) : SourceArgs[j] = data[i]

C5_Witness ==
    /\ Rewritten
    /\ SourceAssign # <<>>
    /\ Len(OrelseChain(ResultNode)) >= 3
    /\ \E k \in 1..Len(OrelseChain(ResultNode)) : Len(OrelseChain(ResultNode)[k].body) >= 2

\* the keyword and arguments of a generated keyword call
Called(st) == SelectTokens(st.tokens, {"KEYWORD", "ARGUMENT"})

\* a generated call is made of the tokens given: the first as its keyword
MadeOf(st, tokens) ==
    /\ st.type = "KeywordCall"
    /\ Len(Called(st)) = Len(tokens)
    /\ Len(tokens) >= 1
    /\ Called(st)[1].type = "KEYWORD"
    /\ Called(st)[1].value = tokens[1].value
    /\ Tail(Called(st)) = Tail(tokens)

\* C6: a branch whose keyword normalizes to 'runkeywords' and that holds n
\* AND delimiters has a body of n + 1 keyword calls, one for each AND-separated
\* segment, in order, without the Run Keywords and AND tokens; any other
\* branch has a body of one keyword call made of all the branch's tokens.
C6_RunKeywordsSplit ==
    Rewritten
    => /\ Len(OrelseChain(ResultNode)) = Len(Branches)
       /\ \A k \in 1..Len(Branches) :
             LET call == BranchCall(Branches[k])
                 body == OrelseChain(ResultNode)[k].body
                 segments == Pieces(call, {S_AND})
             IN  IF IsRunKeywords(call)
                 THEN /\ Len(body) = Len(Positions(call, {S_AND})) + 1
                      /\ \A m \in 1..Len(body) : MadeOf(body[m], Tail(segments[m]))
                 ELSE /\ Len(body) = 1
                      /\ MadeOf(body[1], call)

C6_Witness ==
    /\ Rewritten
    /\ \E k \in 1..Len(Branches) :
          /\ BranchCall(Branches[k])[1].value = S_run_keywords
          /\ Len(OrelseChain(ResultNode)[k].body) >= 2
          /\ Len(Called(OrelseChain(ResultNode)[k].body[1])) >= 2
    /\ \E k \in 1..Len(Branches) :
          /\ ~IsRunKeywords(BranchCall(Branches[k]))
          /\ Len(BranchCall(Branches[k])) >= 2



(***************************************************************************)
(* AssignmentNormalizer on files whose variables and keyword calls carry    *)
(* the markers "", "=", " =" and "  ="                                      *)
(***************************************************************************)
MaxAssignments == 3

Markers == {<<>>, S_eq, S_space_eq, <<" ", " ", "=">>}
AssignValues == {S_var_a \o marker : marker \in Markers} \cup {S_var_nested \o S_eq}

EqualSignTypes == {"autodetect", "remove", "equal_sign", "space_and_equal_sign"}

InitAssignment ==
    \E variables \in SeqsUpTo(AssignValues, MaxAssignments),
       targets \in SeqsUpTo(AssignValues, MaxAssignments),
       equal_sign_type \in EqualSignTypes :
        /\ Len(variables) + Len(targets) <= MaxAssignments
        /\ Start(DefaultFormatting, <<AssignmentNormalizer(equal_sign_type)>>,
                 <<AssignFile(variables, targets)>>)

SpecAssignment == InitAssignment /\ [][Transform]_vars

\* the values of the assignment tokens of a node, in the order of the file
RECURSIVE Targets(_)
Targets(node) ==
    LET each(nodes) == Concat(AsSeq([i \in 1..Len(nodes) |-> Targets(nodes[i])]))
    IN  CASE node.type = "KeywordCall" -> Values(get_tokens(node, "ASSIGN"))
          [] node.type = "Variable" -> Values(get_tokens(node, "VARIABLE"))
          [] node.type = "File" -> each(node.sections)
          [] IsSection(node) \/ IsBlock(node) -> each(node.body)
          [] node.type = "If" ->
                each(node.body) \o (IF node.orelse = None THEN <<>> ELSE Targets(node.orelse))
          [] OTHER -> <<>>

\* the variable of an assignment token ends with its closing brace, the marker
\* is what follows
ClosingBrace(value) ==
    CHOOSE i \in 1..Len(value) : value[i] = "}" /\ \A j \in (i + 1)..Len(value) : value[j] # "}"
VariableOf(value) == SubSeq(value, 1, ClosingBrace(value))
MarkerOf(value) == SubSeq(value, ClosingBrace(value) + 1, Len(value))

MarkersOf(node) == AsSeq([i \in 1..Len(Targets(node)) |-> MarkerOf(Targets(node)[i])])
Styles(node) == {MarkersOf(node)[i] : i \in 1..Len(MarkersOf(node))}
MostFrequent(style, node) ==
    \A other \in Styles(node) : Count(MarkersOf(node), other) <= Count(MarkersOf(node), style)

Autodetect == transformers[1].name = "AssignmentNormalizer" /\ transformers[1].equal_sign_type = <<>>
Explicit == transformers[1].name = "AssignmentNormalizer" /\ transformers[1].equal_sign_type # <<>>

\* C7: under autodetection a document with two or more marker styles ends with
\* every assignment token in its most frequent style, and a document with
\* fewer than two styles is left as it was.
C7_Autodetection ==
    (pc = "done" /\ Autodetect) =>
        IF Cardinality(Styles(source)) >= 2
        THEN \E style \in Styles(source) :
                /\ MostFrequent(style, source)
                /\ \A i \in 1..Len(Targets(model)) : MarkerOf(Targets(model)[i]) = style
        ELSE model = source

\* C9: under an explicit style every assignment token ends as its variable
\* followed by that style.
C9_ExplicitStyle ==
    (pc = "done" /\ Explicit) =>
        /\ Len(Targets(model)) = Len(Targets(source))
        /\ \A i \in 1..Len(Targets(model)) :
              Targets(model)[i] = VariableOf(Targets(source)[i]) \o transformers[1].equal_sign_type[1]

\* the supported marker styles
Supported == {<<>>, S_eq, S_space_eq}

\* where a style is first met in the file
FirstMet(style, node) ==
    CHOOSE i \in 1..Len(MarkersOf(node)) :
        /\ MarkersOf(node)[i] = style
        /\ \A j \in 1..(i - 1) : MarkersOf(node)[j] # style

\* the style is a most frequent one, and no other most frequent style is met
\* before it
FirstMostFrequent(style, node) ==
    /\ style \in Styles(node)
    /\ MostFrequent(style, node)
    /\ \A other \in Styles(node) :
           MostFrequent(other, node) => FirstMet(style, node) <= FirstMet(other, node)

\* the style the detector selects for the file, and what every assignment
\* token is given at its end, is the supported style that is most frequent
\* and, among equally frequent ones, first met
Selected(style) ==
    /\ auto_detect_equal_sign(source) = <<style>>
    /\ Len(Targets(model)) = Len(Targets(source))
    /\ \A i \in 1..Len(Targets(model)) :
           Targets(model)[i] = remove_equal_sign(Targets(source)[i]) \o style

\* C21: under autodetection the style that is selected for a file and
\* appended to its assignment tokens is one of '', '=' and ' =', and of
\* equally frequent styles it is the one met first in the file.
C21_CanonicalTarget ==
    (pc = "done" /\ Autodetect /\ auto_detect_equal_sign(source) # <<>>) =>
        \E style \in Supported : Selected(style) /\ FirstMostFrequent(style, source)

\* C21 on the files whose markers are all supported and whose variables have
\* no nested braces
C21_AmongSupported ==
    (/\ pc = "done"
     /\ Autodetect
     /\ auto_detect_equal_sign(source) # <<>>
     /\ \A i \in 1..Len(Targets(source)) :
            /\ MarkerOf(Targets(source)[i]) \in Supported
            /\ VariableOf(Targets(source)[i]) = S_var_a) =>
        \E style \in Supported : Selected(style) /\ FirstMostFrequent(style, source)

\* two styles as frequent as each other, the second of the file before the
\* first of the supported styles: the one met first was selected
C21_TieWitness ==
    /\ pc = "done"
    /\ Autodetect
    /\ MarkersOf(source) = <<S_space_eq, <<>>>>
    /\ Selected(S_space_eq)


(***************************************************************************)
(* NormalizeNewLines on files of at most MaxSections sections               *)
(***************************************************************************)
MaxSections == 3
MaxBlank == 2

\* the lines of a section: without statements, with blank lines only, with
\* blank lines around its statements, with tests or keywords
SectionLines ==
    {<<L_Settings>>,
     <<L_Settings, L_Blank>>,
     <<L_Settings, L_Doc>>,
     <<L_Settings, L_Blank, L_Doc, L_Blank, L_Blank>>,
     <<L_Settings, L_Template, L_Blank>>,
     <<L_TestCases, L_Blank, L_Test, L_Call, L_Blank, L_Test, L_Blank, L_Call, L_Blank, L_Blank>>,
     <<L_TestCases, L_Test, L_Call>>,
     <<L_Keywords, L_Keyword, L_Call, L_Blank, L_Keyword, L_Call>>}

\* <<test_case_lines, keyword_lines, section_lines, separate_templated_tests>>:
\* every section_lines with the defaults, and the other parameters with the
\* default section_lines
NewLinesParameters ==
    {<<1, <<>>, section_lines, FALSE>> : section_lines \in 0..MaxBlank}
    \cup {<<test_case_lines, keyword_lines, 1, separate_templated_tests>> :
             test_case_lines \in {1, MaxBlank}, keyword_lines \in {<<>>, <<0>>},
             separate_templated_tests \in BOOLEAN}

InitNewLines ==
    \E chunks \in SeqsUpTo(SectionLines, MaxSections), given \in NewLinesParameters :
        Start(DefaultFormatting,
              <<NormalizeNewLines(given[1], given[2], given[3], given[4])>>,
              <<Parse(Concat(chunks))>>)

SpecNewLines == InitNewLines /\ [][Transform]_vars

\* the number of blank lines a sequence of statements ends with
RECURSIVE TrailingBlank(_)
TrailingBlank(statements) ==
    IF statements # <<>> /\ Last(statements).type = "EmptyLine"
    THEN 1 + TrailingBlank(Front(statements))
    ELSE 0

\* the statements of a section after its header
Content(section) == Tail(Statements(section))
StartsBlank(section) == Content(section) # <<>> /\ Head(Content(section)).type = "EmptyLine"
HasData(section) ==
    \E i \in 1..Len(Content(section)) : Content(section)[i].type # "EmptyLine"

NewLinesDone == pc = "done" /\ transformers[1].name = "NormalizeNewLines"

\* C10: every section but the last ends with exactly section_lines blank lines
\* and its body does not start with a blank line; the last section ends with
\* exactly one blank line.
C10_SectionBlankLines ==
    NewLinesDone =>
        \A i \in 1..Len(model.sections) :
            IF i < Len(model.sections)
            THEN /\ TrailingBlank(Content(model.sections[i])) = transformers[1].section_lines
                 /\ ~StartsBlank(model.sections[i])
            ELSE TrailingBlank(Content(model.sections[i])) = 1

\* C10 amended: every section but the last ends with exactly section_lines
\* blank lines, and its body does not start with a blank line when the section
\* holds anything but blank lines; the last section ends with exactly one
\* blank line.
C10_SectionBlankLinesWithData ==
    NewLinesDone =>
        \A i \in 1..Len(model.sections) :
            IF i < Len(model.sections)
            THEN /\ TrailingBlank(Content(model.sections[i])) = transformers[1].section_lines
                 /\ HasData(model.sections[i]) => ~StartsBlank(model.sections[i])
            ELSE TrailingBlank(Content(model.sections[i])) = 1

\* a section that is not the last, started with a blank line before its
\* statements and did not end with section_lines blank lines
C10_Witness ==
    /\ NewLinesDone
    /\ Len(source.sections) >= 2
    /\ HasData(source.sections[1])
    /\ StartsBlank(source.sections[1])
    /\ TrailingBlank(Content(source.sections[1])) # transformers[1].section_lines
    /\ TrailingBlank(Content(source.sections[Len(source.sections)])) # 1


(***************************************************************************)
(* One transformer instance on at most MaxFiles files, one after another    *)
(***************************************************************************)
MaxFiles == 2

S_a_eq == S_var_a \o S_eq
S_a_space_eq == S_var_a \o S_space_eq

\* files with two marker styles, with one, with and without suite settings
\* that tests overwrite, with and without a test template, and an empty file
Documents ==
    {<<>>,
     <<L_Variables, L_Variable(S_a_eq), L_Variable(S_a_eq),
       L_Keywords, L_Keyword, L_Assign(S_a_space_eq), L_Blank>>,
     <<L_Variables, L_Variable(S_a_space_eq), L_Blank,
       L_Keywords, L_Keyword, L_Assign(S_a_space_eq)>>,
     <<L_Keywords, L_Keyword, L_Assign(S_var_a), L_Assign(S_var_a), L_Assign(S_a_eq)>>,
     <<L_Settings, L_TestTimeout, L_Template, L_NoDoc,
       L_TestCases, L_Test, L_Timeout, L_Call, L_Blank, L_Test, L_Call,
       L_Keywords, L_Keyword, L_Timeout, L_Keyword, L_Call>>,
     <<L_Settings, L_NoTestTimeout, L_Blank,
       L_TestCases, L_Blank, L_Test, L_Timeout, L_Test, L_TimeoutSet, L_Blank, L_Blank>>,
     <<L_TestCases, L_Test, L_Call, L_Test, L_Call>>,
     <<L_Keywords, L_Keyword, L_Call, L_Keyword, L_Call, L_Blank>>}

\* the transformers that keep something about the file they visit
Keepers ==
    {AssignmentNormalizer(equal_sign_type) : equal_sign_type \in EqualSignTypes}
    \cup {RemoveEmptySettings(work_mode, more_explicit) :
             work_mode \in {"overwrite_ok", "always"}, more_explicit \in BOOLEAN}
    \cup {NormalizeNewLines(given[1], given[2], given[3], given[4]) :
             given \in NewLinesParameters}

InitManyFiles ==
    \E files \in SeqsUpTo(Documents, MaxFiles), keeper \in Keepers :
        /\ files # <<>>
        /\ Start(DefaultFormatting, <<keeper>>,
                 AsSeq([i \in 1..Len(files) |-> Parse(files[i])]))

NextManyFiles == Transform \/ LoadFile

SpecManyFiles == InitManyFiles /\ [][NextManyFiles]_vars

\* the instance as its constructor leaves it, with the same parameters
Fresh(self) ==
    CASE self.name = "AssignmentNormalizer" -> [self EXCEPT !.file_equal_sign_type = <<>>]
      [] self.name = "RemoveEmptySettings" -> [self EXCEPT !.overwritten_settings = {}]
      [] self.name = "NormalizeNewLines" ->
            [self EXCEPT !.last_section = <<>>, !.last_test = <<>>, !.last_keyword = <<>>,
                         !.templated = FALSE]

\* C8: what an instance makes of a file, whatever files it has visited before,
\* is what a new instance with the same parameters makes of it as its first
\* file.
C8_NoStateLeak ==
    pc = "done" =>
        model = visit(Fresh(transformers[1]), source, formatting_config, 1).model

\* a file of one marker style was visited, under autodetection, after a file
\* in which another style was detected
C8_Witness ==
    /\ pc = "done"
    /\ previous # None
    /\ Autodetect
    /\ most_common(previous) # <<>>
    /\ Cardinality(Styles(source)) = 1
    /\ most_common(previous)[1] \notin Styles(source)


(***************************************************************************)
(* One transformer on a file, with a selection of lines                     *)
(***************************************************************************)
S_settings == <<"*","*","*"," ","s","e","t","t","i","n","g","s"," ","*","*","*">>
S_library == <<"l","i","b","r","a","r","y">>
S_timeout == <<"[","t","i","m","e","o","u","t","]">>
S_x == <<"x">>
S_var_longer_eq == <<"$","{","l","o","n","g","e","r","}"," ","=">>
S_comment == <<"#"," ","c">>

\* a file in which every transformer finds something to change: header and
\* setting names in lower case, empty settings, variables out of line and
\* with two markers, sections without statements, a Run Keyword If call and
\* blank lines
ScopeLines ==
    <<<<"section", "SettingSection", <<<<"SETTING_HEADER", S_settings>>, EolCell>>>>,
      <<"statement", "LibraryImport",
        <<<<"LIBRARY", S_library>>, Sep2, <<"NAME", S_x>>, EolCell>>>>,
      L_NoDoc,
      L_Blank,
      L_Variables,
      L_Variable(S_a_eq),
      L_Variable(S_var_longer_eq),
      L_Variable(S_a_eq),
      L_TestCases,
      L_Blank,
      <<"section", "CommentSection", <<<<"COMMENT_HEADER", S_Comments>>, EolCell>>>>,
      L_Blank,
      <<"section", "VariableSection", <<<<"VARIABLE_HEADER", S_Variables>>, EolCell>>>>,
      <<"statement", "Comment", <<<<"COMMENT", S_comment>>, EolCell>>>>,
      L_Keywords,
      L_Keyword,
      <<"statement", "Timeout", <<Sep4, <<"TIMEOUT", S_timeout>>, EolCell>>>>,
      <<"statement", "KeywordCall",
        <<Sep4, <<"ASSIGN", S_a_space_eq>>, Sep2, <<"KEYWORD", S_RunKeywordIf>>,
          Sep2, <<"ARGUMENT", S_var_a>>, Sep2, <<"ARGUMENT", S_Kw>>, EolCell>>>>,
      L_Blank,
      L_Keyword,
      L_Assign(S_a_eq),
      L_Blank>>

\* every transformer as it is made without arguments, and some made with
ScopeTransformers ==
    {DiscardEmptySections(allow_only_comments) : allow_only_comments \in BOOLEAN}
    \cup {[name |-> "ReplaceRunKeywordIf"], [name |-> "NormalizeSettingName"]}
    \cup {AssignmentNormalizer(equal_sign_type) : equal_sign_type \in {"autodetect", "remove"}}
    \cup {NormalizeSectionHeaderName(uppercase) : uppercase \in BOOLEAN}
    \cup {NormalizeNewLines(1, <<>>, 1, FALSE)}
    \cup {AlignVariablesSection(2, <<>>, <<>>)}
    \cup {RemoveEmptySettings(work_mode, TRUE) : work_mode \in {"overwrite_ok", "always"}}

InitScope ==
    \E start_line \in 1..Len(ScopeLines), end_line \in 1..Len(ScopeLines),
       instance \in ScopeTransformers :
        /\ start_line <= end_line
        /\ Start([DefaultFormatting EXCEPT !.window = <<start_line, end_line>>],
                 <<instance>>, <<Parse(ScopeLines)>>)

SpecScope == InitScope /\ [][Transform]_vars

\* every node of a file: sections, tests, keywords, If blocks and statements
RECURSIVE Nodes(_)
Nodes(node) ==
    LET each(nodes) == Concat(AsSeq([i \in 1..Len(nodes) |-> Nodes(nodes[i])]))
    IN  CASE node.type = "File" -> each(node.sections)
          [] IsSection(node) \/ IsBlock(node) -> <<node, node.header>> \o each(node.body)
          [] node.type = "If" ->
                <<node, node.header>> \o each(node.body)
                \o (IF node.orelse = None THEN <<>> ELSE Nodes(node.orelse))
                \o (IF node.end = None THEN <<>> ELSE <<node.end>>)
          [] OTHER -> <<node>>

\* the lines of a node lie before the first or after the last selected line
OutsideWindow(node) ==
    /\ formatting_config.window # <<>>
    /\ \/ end_lineno(Last(Statements(node))) < formatting_config.window[1]
       \/ lineno(Head(Statements(node))) > formatting_config.window[2]

Kept(node) == \E j \in 1..Len(Nodes(model)) : Nodes(model)[j] = node

\* C1: a node whose lines lie outside the selection is still in the file after
\* a transformer has run, with the tokens and the body it had.
C1_ScopeLaw ==
    pc = "done" =>
        \A i \in 1..Len(Nodes(source)) :
            OutsideWindow(Nodes(source)[i]) => Kept(Nodes(source)[i])


(***************************************************************************)
(* Every transformer, in the default order and made without arguments,      *)
(* on a file; then once more on the file as it was written                  *)
(***************************************************************************)
MaxDepth == 2

\* the kind of section a header starts
SectionOfHeader(type) ==
    CASE type = "SETTING_HEADER" -> "SettingSection"
      [] type = "VARIABLE_HEADER" -> "VariableSection"
      [] type = "TESTCASE_HEADER" -> "TestCaseSection"
      [] type = "KEYWORD_HEADER" -> "KeywordSection"
      [] type = "COMMENT_HEADER" -> "CommentSection"

\* the line a statement is written as: the tokens that hold text
LineOf(statement) ==
    LET written == SelectSeq(statement.tokens, LAMBDA token : token.value # <<>>)
        cells == AsSeq([i \in 1..Len(written) |-> <<written[i].type, written[i].value>>])
    IN  CASE statement.type = "SectionHeader" ->
                <<"section", SectionOfHeader(statement_type(statement)), cells>>
          [] statement.type = "TestCaseName" -> <<"block", "TestCase", cells>>
          [] statement.type = "KeywordName" -> <<"block", "Keyword", cells>>
          [] OTHER -> <<"statement", statement.type, cells>>

\* the lines of the file that is written from a model
Unparse(node) == AsSeq([i \in 1..Len(Statements(node)) |-> LineOf(Statements(node)[i])])

\* the text of the file that is written from a model
Written(node) ==
    Concat(AsSeq([i \in 1..Len(Statements(node)) |->
                     Concat(Values(Statements(node)[i].tokens))]))

\* Run Keyword If  ${a}  Run Keyword If  ${a}  ...  Kw
RECURSIVE NestedArgs(_)
NestedArgs(depth) ==
    IF depth = 0 THEN <<<<"ARGUMENT", S_Kw>>>>
    ELSE <<<<"ARGUMENT", S_var_a>>, Sep2>>
         \o (IF depth = 1 THEN <<>> ELSE <<<<"ARGUMENT", S_RunKeywordIf>>, Sep2>>)
         \o NestedArgs(depth - 1)

L_RunKeywordIf(targets, depth, rest) ==
    <<"statement", "KeywordCall",
      <<Sep4>> \o targets \o <<<<"KEYWORD", S_RunKeywordIf>>, Sep2>> \o NestedArgs(depth)
      \o rest \o <<EolCell>>>>

L_PipeAssign(target) ==
    <<"statement", "KeywordCall",
      <<<<"SEPARATOR", <<"|", " ", " ", " ">>>>, <<"SEPARATOR", <<"|", " ">>>>,
        <<"ASSIGN", target>>, <<"SEPARATOR", <<" ", "|", " ">>>>, <<"KEYWORD", S_Kw>>,
        <<"SEPARATOR", <<" ", "|">>>>, EolCell>>>>

PipelineSettings ==
    {<<>>, <<L_Settings, L_Doc, L_Blank>>, <<L_Settings, L_NoDoc>>,
     <<L_Settings, L_TestTimeout, L_Blank, L_Blank>>}

PipelineVariables ==
    {<<>>, <<L_Variables, L_Variable(S_a_eq), L_Variable(S_var_longer_eq), L_Blank>>}

\* the statements of the keyword: Run Keyword If calls, nested up to MaxDepth,
\* assignments with the markers "=", " =" and "  =", empty settings
PipelineBodies ==
    {<<L_Call>>,
     <<L_Assign(S_a_eq), L_Assign(S_a_space_eq), L_Assign(S_a_eq)>>,
     <<L_PipeAssign(S_var_a \o <<" ", " ", "=">>), L_Assign(S_a_eq)>>,
     <<L_Call, L_Blank, L_Timeout>>,
     <<L_Timeout, L_Call, L_Blank, L_Blank>>,
     <<L_RunKeywordIf(<<>>, 1, <<Sep2, <<"ARGUMENT", S_ELSE>>, Sep2, <<"ARGUMENT", S_Kw>>>>)>>,
     <<L_RunKeywordIf(<<<<"ASSIGN", S_a_space_eq>>, Sep2>>, 1, <<>>), L_Assign(S_a_eq)>>}
    \cup {<<L_RunKeywordIf(<<>>, depth, <<>>)>> : depth \in 1..MaxDepth}

\* the transformers in the order of the registry; DiscardEmptySections is made
\* with allow_only_comments False (transformers.py) or True
\* (transformers/DiscardEmptySections.py)
DefaultTransformers(allow_only_comments) ==
    <<DiscardEmptySections(allow_only_comments),
      [name |-> "ReplaceRunKeywordIf"],
      AssignmentNormalizer("autodetect"),
      [name |-> "NormalizeSettingName"],
      NormalizeSectionHeaderName(FALSE),
      NormalizeNewLines(1, <<>>, 1, FALSE),
      AlignVariablesSection(2, <<>>, <<>>),
      RemoveEmptySettings("overwrite_ok", TRUE)>>

InitPipeline ==
    \E settings \in PipelineSettings, variables \in PipelineVariables,
       statements \in PipelineBodies, allow_only_comments \in BOOLEAN :
        Start(DefaultFormatting, DefaultTransformers(allow_only_comments),
              <<Parse(settings \o variables \o <<L_Keywords, L_Keyword>> \o statements)>>)

\* the file written by the first run is read and formatted again
Rerun ==
    /\ pc = "done"
    /\ first = None
    /\ first' = model
    /\ model' = Parse(Unparse(model))
    /\ before' = model'
    /\ serial' = serial + 1
    /\ pos' = 1
    /\ pc' = "run"
    /\ UNCHANGED <<formatting_config, allowed_transformers, transformers, sources, source,
                   previous, configs, wrote>>

NextPipeline == Transform \/ Rerun

SpecPipeline == InitPipeline /\ [][NextPipeline]_vars

\* C2: the file written after the second run of the default transformers is
\* the file written after the first.
C2_Idempotence ==
    (pc = "done" /\ first # None) => Written(model) = Written(first)


(***************************************************************************)
(* NormalizeNewLines on files with test cases and keywords                  *)
(***************************************************************************)
MaxBlocks == 2

\* the lines of a test case or keyword after its name
BlockBodies ==
    {<<L_Call>>,
     <<L_Blank, L_Call, L_Blank>>,
     <<L_Blank>>,
     <<L_Call, L_Blank, L_Blank>>}

\* no Settings section, a test template, a Test Template setting without a name
BlockSettings == {<<>>, <<L_Settings, L_Template, L_Blank>>, <<L_Settings, L_NoTemplate>>}

\* a section of tests or keywords with the given bodies
BlockSection(header, name, bodies) ==
    <<header>> \o Concat(AsSeq([i \in 1..Len(bodies) |-> <<name>> \o bodies[i]]))

InitBlocks ==
    \E settings \in BlockSettings, bodies \in SeqsUpTo(BlockBodies, MaxBlocks),
       layout \in {"tests", "keywords", "tests, keywords", "keywords, tests"},
       given \in NewLinesParameters :
        LET tests == BlockSection(L_TestCases, L_Test, bodies)
            keywords == BlockSection(L_Keywords, L_Keyword, bodies)
            lines == CASE layout = "tests" -> tests
                       [] layout = "keywords" -> keywords
                       [] layout = "tests, keywords" -> tests \o keywords
                       [] layout = "keywords, tests" -> keywords \o tests
        IN  Start(DefaultFormatting,
                  <<NormalizeNewLines(given[1], given[2], given[3], given[4])>>,
                  <<Parse(settings \o lines)>>)

SpecBlocks == InitBlocks /\ [][Transform]_vars

\* the tests or keywords of a section
Blocks(section) == SelectSeq(section.body, IsBlock)

\* the tests (keywords) of a file, each with whether it is the last of its section
BlocksOf(file, type) ==
    Concat(AsSeq([i \in 1..Len(file.sections) |->
        LET blocks == SelectSeq(file.sections[i].body, LAMBDA node : node.type = type)
        IN  AsSeq([j \in 1..Len(blocks) |-> [node |-> blocks[j], last |-> j = Len(blocks)]])]))

\* a body without the blank lines it starts and ends with
Core(body) ==
    LET data == {i \in 1..Len(body) : body[i].type # "EmptyLine"}
    IN  IF data = {} THEN <<>>
        ELSE SubSeq(body, CHOOSE i \in data : \A j \in data : i <= j,
                          CHOOSE i \in data : \A j \in data : j <= i)

\* the body is the trimmed body given, followed by exactly n blank lines
EndsWith(body, given, n) ==
    /\ Len(body) = Len(Core(given)) + n
    /\ SubSeq(body, 1, Len(Core(given))) = Core(given)
    /\ \A i \in (Len(Core(given)) + 1)..Len(body) : body[i].type = "EmptyLine"

\* a Settings section gives Test Template a name
SharedTemplate(file) ==
    \E i \in 1..Len(file.sections) :
        /\ file.sections[i].type = "SettingSection"
        /\ \E j \in 1..Len(file.sections[i].body) :
               /\ file.sections[i].body[j].type = "TestTemplate"
               /\ \E k \in 1..Len(file.sections[i].body[j].tokens) :
                      file.sections[i].body[j].tokens[k].type = "NAME"

\* every block of the type ends as given: the last of a section with no blank
\* line, any other with n blank lines after its trimmed body
Separated(type, n) ==
    /\ Len(BlocksOf(model, type)) = Len(BlocksOf(source, type))
    /\ \A i \in 1..Len(BlocksOf(model, type)) :
           EndsWith(BlocksOf(model, type)[i].node.body, BlocksOf(source, type)[i].node.body,
                    IF BlocksOf(source, type)[i].last THEN 0 ELSE n)

\* C11: in a file without a test template, every test case but the last of
\* its section has its body trimmed of leading and trailing blank lines and
\* then test_case_lines blank lines, every keyword but the last of its section
\* keyword_lines blank lines, the last test case and the last keyword of a
\* section end with no blank line, and keyword_lines is test_case_lines when
\* it was not configured (the default parameters leave one blank line after a
\* keyword).
C11_BlockBlankLines ==
    (NewLinesDone /\ ~SharedTemplate(source)) =>
        /\ Separated("TestCase", transformers[1].test_case_lines)
        /\ Separated("Keyword", transformers[1].keyword_lines)
        /\ \A test_case_lines \in 0..MaxBlank, section_lines \in 0..MaxBlank :
               NormalizeNewLines(test_case_lines, <<>>, section_lines, FALSE).keyword_lines
                   = test_case_lines

\* a file without a template whose first test and first keyword start with a
\* blank line and do not end with the configured number of blank lines, and
\* whose last test ends with blank lines
C11_Witness ==
    /\ NewLinesDone
    /\ ~SharedTemplate(source)
    /\ Len(BlocksOf(source, "TestCase")) >= 2
    /\ Len(BlocksOf(source, "Keyword")) >= 2
    /\ Head(BlocksOf(source, "TestCase")[1].node.body).type = "EmptyLine"
    /\ TrailingBlank(BlocksOf(source, "TestCase")[1].node.body) # transformers[1].test_case_lines
    /\ TrailingBlank(BlocksOf(source, "Keyword")[1].node.body) # transformers[1].keyword_lines
    /\ TrailingBlank(BlocksOf(source, "TestCase")[2].node.body) > 0
    /\ transformers[1].keyword_lines # transformers[1].test_case_lines

\* C12: in a file with test cases and a test template, no test case ends with
\* a blank line unless separate_templated_tests is set, in which case the
\* tests are separated by test_case_lines blank lines as without a template;
\* the keywords are separated by keyword_lines blank lines either way.
C12_TemplatedTests ==
    (NewLinesDone /\ SharedTemplate(source) /\ BlocksOf(source, "TestCase") # <<>>) =>
        /\ Separated("TestCase", IF transformers[1].separate_templated_tests
                                 THEN transformers[1].test_case_lines ELSE 0)
        /\ Separated("Keyword", transformers[1].keyword_lines)

\* a templated file with two tests, the first ending with blank lines, and two
\* keywords, formatted without separate_templated_tests
C12_Witness ==
    /\ NewLinesDone
    /\ SharedTemplate(source)
    /\ ~transformers[1].separate_templated_tests
    /\ transformers[1].test_case_lines > 0
    /\ transformers[1].keyword_lines > 0
    /\ Len(BlocksOf(source, "TestCase")) >= 2
    /\ Len(BlocksOf(source, "Keyword")) >= 2
    /\ TrailingBlank(BlocksOf(source, "TestCase")[1].node.body) > 0
    /\ TrailingBlank(BlocksOf(model, "Keyword")[1].node.body) > 0

\* a templated file with two tests formatted with separate_templated_tests
C12_WitnessSeparate ==
    /\ NewLinesDone
    /\ SharedTemplate(source)
    /\ transformers[1].separate_templated_tests
    /\ Len(BlocksOf(source, "TestCase")) >= 2
    /\ TrailingBlank(BlocksOf(source, "TestCase")[1].node.body) # transformers[1].test_case_lines

(***************************************************************************)
(* RemoveEmptySettings on files with suite settings and the settings of     *)
(* tests and keywords                                                       *)
(***************************************************************************)
MaxSettings == 2

OverridableKinds == {"SETUP", "TEARDOWN", "TEMPLATE", "TIMEOUT", "TAGS"}

S_Setup == <<"[","S","e","t","u","p","]">>
S_Teardown == <<"[","T","e","a","r","d","o","w","n","]">>
S_Template == <<"[","T","e","m","p","l","a","t","e","]">>
S_Tags == <<"[","T","a","g","s","]">>
S_TestSetup == <<"T","e","s","t"," ","S","e","t","u","p">>
S_TestTeardown == <<"T","e","s","t"," ","T","e","a","r","d","o","w","n">>
S_DefaultTags == <<"D","e","f","a","u","l","t"," ","T","a","g","s">>

\* the suite setting that gives tests the setting of the kind: its statement,
\* the type of its token, its name
SuiteSetting(kind) ==
    CASE kind = "SETUP" -> <<"TestSetup", "TEST_SETUP", S_TestSetup>>
      [] kind = "TEARDOWN" -> <<"TestTeardown", "TEST_TEARDOWN", S_TestTeardown>>
      [] kind = "TEMPLATE" -> <<"TestTemplate", "TEST_TEMPLATE", S_TestTemplate>>
      [] kind = "TIMEOUT" -> <<"TestTimeout", "TEST_TIMEOUT", S_TestTimeout>>
      [] kind = "TAGS" -> <<"DefaultTags", "DEFAULT_TAGS", S_DefaultTags>>

\* the setting of the kind in a test or keyword: its statement and its name
OwnSetting(kind) ==
    CASE kind = "SETUP" -> <<"Setup", S_Setup>>
      [] kind = "TEARDOWN" -> <<"Teardown", S_Teardown>>
      [] kind = "TEMPLATE" -> <<"Template", S_Template>>
      [] kind = "TIMEOUT" -> <<"Timeout", S_Timeout>>
      [] kind = "TAGS" -> <<"Tags", S_Tags>>

\* "Test Timeout  1" or "Test Timeout"
L_Suite(kind, valued) ==
    <<"statement", SuiteSetting(kind)[1],
      <<<<SuiteSetting(kind)[2], SuiteSetting(kind)[3]>>>>
      \o (IF valued THEN <<Sep2, <<"ARGUMENT", S_1>>>> ELSE <<>>) \o <<EolCell>>>>

\* "    [Timeout]  1" or "    [Timeout]" after the given indentation
L_Own(kind, valued, indent) ==
    <<"statement", OwnSetting(kind)[1],
      <<indent, <<kind, OwnSetting(kind)[2]>>>>
      \o (IF valued THEN <<Sep2, <<"ARGUMENT", S_1>>>> ELSE <<>>) \o <<EolCell>>>>

\* the settings of a test: every kind without a value, one with a value, one
\* indented by two spaces
OwnLines ==
    {L_Own(kind, FALSE, Sep4) : kind \in OverridableKinds}
    \cup {L_Own("TIMEOUT", TRUE, Sep4), L_Own("SETUP", FALSE, Sep2)}

\* the kinds in the order their suite settings are written
KindOrder == <<"SETUP", "TEARDOWN", "TEMPLATE", "TIMEOUT", "TAGS">>

\* the Settings section that gives the kinds of valued a value and those of
\* empty a setting without one
SuiteLines(valued, empty) ==
    LET of(kind) == (IF kind \in empty THEN <<L_Suite(kind, FALSE)>> ELSE <<>>)
                    \o (IF kind \in valued THEN <<L_Suite(kind, TRUE)>> ELSE <<>>)
    IN  <<L_Settings>> \o Concat(AsSeq([i \in 1..Len(KindOrder) |-> of(KindOrder[i])]))

InitSettings ==
    \E valued \in {{}, OverridableKinds} \cup {{kind} : kind \in OverridableKinds},
       empty \in {{}, {"TIMEOUT"}},
       own \in SeqsUpTo(OwnLines, MaxSettings), more_explicit \in BOOLEAN :
        Start(DefaultFormatting,
              <<RemoveEmptySettings("overwrite_ok", more_explicit)>>,
              <<Parse(SuiteLines(valued, empty)
                      \o <<L_TestCases, L_Test>> \o own \o <<L_Call>>
                      \o <<L_Keywords, L_Keyword, L_Own("TEARDOWN", FALSE, Sep4), L_Call>>)>>)

SpecSettings == InitSettings /\ [][Transform]_vars

SettingsDone == pc = "done" /\ transformers[1].name = "RemoveEmptySettings"

\* the statement names a setting of a test or keyword and gives it no value
IsEmptyOwn(statement) ==
    /\ Len(data_tokens(statement)) = 1
    /\ data_tokens(statement)[1].type \in OverridableKinds

\* the file gives the suite setting of the kind a value
GivenBySuite(file, kind) ==
    \E i \in 1..Len(Statements(file)) :
        /\ Len(data_tokens(Statements(file)[i])) > 1
        /\ data_tokens(Statements(file)[i])[1].type = SuiteSetting(kind)[2]

\* the statements of the file that hold the data token read on the line
OnLine(file, line) ==
    SelectSeq(Statements(file),
              LAMBDA statement : \E i \in 1..Len(statement.tokens) :
                  /\ statement.tokens[i].type \notin NonData
                  /\ statement.tokens[i].lineno = line)

\* the types and values of the tokens of a statement
Text(statement) ==
    AsSeq([i \in 1..Len(statement.tokens) |->
              <<statement.tokens[i].type, statement.tokens[i].value>>])

\* the lines the data tokens of the file were read on, in the order of the file
DataLines(file) ==
    LET data == SelectSeq(Statements(file), LAMBDA statement : data_tokens(statement) # <<>>)
    IN  AsSeq([i \in 1..Len(data) |-> data_tokens(data[i])[1].lineno])

\* C13: in overwrite_ok mode a setting of a test or keyword that has a name
\* only and is a setup, teardown, template, timeout or tags is, when the file
\* gives the matching suite setting a value, kept where it is: rewritten with
\* more_explicit to its indentation, its name, the default separator, NONE and
\* an end of line, unchanged without more_explicit; it is deleted when the
\* file gives the suite setting no value.
C13_SuiteOverride ==
    (SettingsDone /\ transformers[1].work_mode = "overwrite_ok") =>
        /\ \A i \in 1..Len(Statements(source)) :
               LET given == Statements(source)[i]
                   name == data_tokens(given)[1]
                   after == OnLine(model, name.lineno)
               IN  IsEmptyOwn(given) =>
                       IF GivenBySuite(source, name.type)
                       THEN /\ Len(after) = 1
                            /\ after[1].type = given.type
                            /\ IF transformers[1].more_explicit
                               THEN Text(after[1]) =
                                        <<<<"SEPARATOR", given.tokens[1].value>>,
                                          <<name.type, name.value>>,
                                          <<"SEPARATOR", Spaces(formatting_config.space_count)>>,
                                          <<"ARGUMENT", S_NONE>>,
                                          <<"EOL", S_EOL>>>>
                               ELSE after[1] = given
                       ELSE after = <<>>
        /\ \A i, j \in 1..Len(DataLines(model)) : i < j => DataLines(model)[i] < DataLines(model)[j]

\* a test with a setting the suite gives a value and one it gives none, both
\* without a value, is formatted with more_explicit
C13_Witness ==
    /\ SettingsDone
    /\ transformers[1].work_mode = "overwrite_ok"
    /\ transformers[1].more_explicit
    /\ \E i, j \in 1..Len(Statements(source)) :
           /\ IsEmptyOwn(Statements(source)[i])
           /\ IsEmptyOwn(Statements(source)[j])
           /\ GivenBySuite(source, data_tokens(Statements(source)[i])[1].type)
           /\ ~GivenBySuite(source, data_tokens(Statements(source)[j])[1].type)
           /\ Statements(source)[i].tokens[1].value = Spaces(2)
    /\ model # source


(***************************************************************************)
(* DiscardEmptySections on files with empty, comment-only and other sections *)
(***************************************************************************)
MaxPruned == 2

L_Comments == <<"section", "CommentSection", <<<<"COMMENT_HEADER", S_Comments>>, EolCell>>>>
L_Comment == <<"statement", "Comment", <<<<"COMMENT", S_comment>>, EolCell>>>>

\* a section of each kind: with nothing, with a blank line, with a comment and
\* a blank line, with what the kind is for
PrunedSections ==
    {<<header>> \o body :
        header \in {L_Settings, L_Variables, L_TestCases, L_Keywords, L_Comments},
        body \in {<<>>, <<L_Blank>>, <<L_Comment, L_Blank>>}}
    \cup {<<L_Settings, L_Blank, L_Doc>>,
          <<L_Variables, L_Comment, L_Variable(S_var_a)>>,
          <<L_TestCases, L_Test>>,
          <<L_Keywords, L_Blank, L_Keyword, L_Call>>,
          <<L_Comments, L_Comment>>}

InitSections ==
    \E chunks \in SeqsUpTo(PrunedSections, MaxPruned), allow_only_comments \in BOOLEAN :
        Start(DefaultFormatting, <<DiscardEmptySections(allow_only_comments)>>,
              <<Parse(Concat(chunks))>>)

SpecSections == InitSections /\ [][Transform]_vars

SectionsDone == pc = "done" /\ transformers[1].name = "DiscardEmptySections"

\* every statement of the body of the section is of one of the types
OnlyOf(section, types) == \A i \in 1..Len(section.body) : section.body[i].type \in types

\* the section is one the claim has deleted
Removable(section, allow_only_comments) ==
    \/ OnlyOf(section, {"EmptyLine"})
    \/ /\ ~allow_only_comments
       /\ section.type # "CommentSection"
       /\ OnlyOf(section, {"EmptyLine", "Comment"})

\* C14: the sections after the pass are the sections of the file, each as it
\* was and in the order of the file, without those whose body holds blank
\* lines only and, when allow_only_comments is off, without those other than
\* Comments sections whose body holds blank lines and comments only; a
\* Comments section with a comment is kept.
C14_EmptySectionPruning ==
    SectionsDone =>
        /\ model.sections =
               SelectSeq(source.sections,
                         LAMBDA section : ~Removable(section, transformers[1].allow_only_comments))
        /\ \A i \in 1..Len(source.sections) :
               (/\ source.sections[i].type = "CommentSection"
                /\ \E j \in 1..Len(source.sections[i].body) :
                       source.sections[i].body[j].type = "Comment")
               => \E k \in 1..Len(model.sections) : model.sections[k] = source.sections[i]

\* a Comments section with a comment and a comment-only section of another
\* kind, when comment-only sections are removed
C14_Witness ==
    /\ SectionsDone
    /\ ~transformers[1].allow_only_comments
    /\ Len(source.sections) = 2
    /\ Len(model.sections) = 1
    /\ \E i, j \in 1..2 :
           /\ source.sections[i].type = "CommentSection"
           /\ source.sections[j].type # "CommentSection"
           /\ \E k \in 1..Len(source.sections[i].body) :
                  source.sections[i].body[k].type = "Comment"
           /\ \E k \in 1..Len(source.sections[j].body) :
                  source.sections[j].body[k].type = "Comment"


(***************************************************************************)
(* AlignVariablesSection on Variables sections                              *)
(***************************************************************************)
MaxRows == 2

S_var_long == <<"$","{","a","b","c","d","e","f","g","h","i","j","k","}">>
S_list == <<"@","{","l","}">>
S_dict == <<"&","{","d","i","c","t","}">>
S_12345 == <<"1","2","3","4","5">>

\* "${a}  1  12345": a variable and its values on one line
L_Values(name, values) ==
    <<"statement", "Variable",
      <<<<"VARIABLE", name>>>> \o Cells("ARGUMENT", values) \o <<EolCell>>>>

\* "${a}  1" continued by "...  12345  1" on the next line
L_Continued ==
    <<"statement", "Variable",
      <<<<"VARIABLE", S_var_a>>, Sep2, <<"ARGUMENT", S_1>>, EolCell,
        <<"CONTINUATION", <<".", ".", ".">>>>, Sep2, <<"ARGUMENT", S_12345>>, Sep2,
        <<"ARGUMENT", S_1>>, EolCell>>>>

L_IndentedComment == <<"statement", "Comment", <<<<"COMMENT", <<" ", " ">> \o S_comment>>, EolCell>>>>

\* the children of a Variables section: names of 4, 7 and 14 characters, one
\* to three values, of every sigil, on one line or two, a comment, a blank line
VariableLines ==
    {L_Values(S_var_a, <<S_1>>),
     L_Values(S_var_long, <<S_1>>),
     L_Values(S_list, <<S_1, S_12345, S_1>>),
     L_Values(S_dict, <<S_12345, S_1>>),
     L_Continued,
     L_IndentedComment,
     L_Blank}

\* <<up_to_column, skip_types, min_width>>
AlignParameters ==
    {<<up_to_column, skip_types, min_width>> :
        up_to_column \in 0..3,
        skip_types \in {<<>>, S_scalar_type, S_list_type \o <<",">> \o S_dict_type},
        min_width \in {<<>>, <<0>>, <<8>>}}

InitAlign ==
    \E rows \in SeqsUpTo(VariableLines, MaxRows), given \in AlignParameters,
       space_count \in {4, 8} :
        Start([DefaultFormatting EXCEPT !.space_count = space_count],
              <<AlignVariablesSection(given[1], given[2], given[3])>>,
              <<Parse(<<L_Variables>> \o rows)>>)

SpecAlign == InitAlign /\ [][Transform]_vars

AlignDone == pc = "done" /\ transformers[1].name = "AlignVariablesSection"

\* the column count the transformer was configured with
Configured == transformers[1].up_to_column + 1

\* a variable definition whose sigil is not among the skipped ones
Alignable(statement) ==
    /\ statement.type = "Variable"
    /\ statement.tokens[1].value[1] \notin transformers[1].skip_types

\* the rows of the variable definitions of the section that are aligned
AlignableRows(section) ==
    Concat(AsSeq([i \in 1..Len(section.body) |->
                     IF Alignable(section.body[i]) THEN tokens_by_lines(section.body[i])
                     ELSE <<>>]))

\* the least multiple of four that is not less than the number
NextMultipleOfFour(number) == CHOOSE m \in number..(number + 3) : m % 4 = 0

\* for each of the first Columns(row) columns of the rows the longest value of
\* the column, rounded
WidthTable(rows, Columns(_)) ==
    LET having(column) == {k \in 1..Len(rows) : column < Columns(rows[k]) /\ column < Len(rows[k])}
        lengths(column) == {Len(rows[k][column + 1].value) : k \in having(column)}
    IN  [column \in {c \in 0..9 : having(c) # {}} |->
            NextMultipleOfFour(CHOOSE length \in lengths(column) :
                                   \A other \in lengths(column) : other <= length)]

\* the table create_look_up makes of the rows of the section
LookUp ==
    create_look_up(AlignVariablesSection_statements(source.sections[1], transformers[1],
                                                    formatting_config),
                   transformers[1])

\* C15: the width table holds, for each of the first N columns of the rows
\* that are aligned, the longest value of the column rounded up to a multiple
\* of four, N being the configured column count, or the length of the row
\* less two when the count is 0.
C15_LookUp ==
    (AlignDone /\ AlignableRows(source.sections[1]) # <<>>) =>
        LookUp = WidthTable(AlignableRows(source.sections[1]),
                            LAMBDA row : IF Configured = 0 THEN Len(row) - 2 ELSE Configured)

\* C15 amended: the width table holds, for each of the first N columns of the
\* rows that are aligned, the longest value of the column rounded up to a
\* multiple of four, N being the configured column count less one, or every
\* token of the row, its end of line included, when the count is 0.
C15_LookUpStored ==
    (AlignDone /\ AlignableRows(source.sections[1]) # <<>>) =>
        LookUp = WidthTable(AlignableRows(source.sections[1]),
                            LAMBDA row : IF Configured = 0 THEN Len(row) ELSE Configured - 1)

\* two aligned rows whose first columns are 4 and 14 characters long, aligned
\* up to column 2: the table gives 16 for the first column and nothing else
C15_Witness ==
    /\ AlignDone
    /\ Configured = 2
    /\ Len(AlignableRows(source.sections[1])) = 2
    /\ Len(AlignableRows(source.sections[1])[1][1].value) = 4
    /\ Len(AlignableRows(source.sections[1])[2][1].value) = 14
    /\ DOMAIN LookUp = {0}
    /\ LookUp[0] = 16

\* rows of different lengths aligned without a column count: every column of
\* the longest row is in the table
C15_WitnessUnbounded ==
    /\ AlignDone
    /\ Configured = 0
    /\ \E i, j \in 1..Len(AlignableRows(source.sections[1])) :
           Len(AlignableRows(source.sections[1])[i]) < Len(AlignableRows(source.sections[1])[j])
    /\ DOMAIN LookUp = 0..4

\* the lengths of the separators of a statement, in the order of its tokens
SeparatorLengths(statement) ==
    LET separators == SelectTokens(statement.tokens, {"SEPARATOR"})
    IN  AsSeq([i \in 1..Len(separators) |-> Len(separators[i].value)])

\* the column from which on the default separator is used
Boundary(row) == IF Configured = 0 THEN Len(row) - 2 ELSE Configured - 1

\* the separator of the claim after the token of the column of a row; a
\* min_width of 0 stands for no min_width, as generate_config tells the user
ClaimedSeparator(row, column) ==
    IF column < Boundary(row)
    THEN IF transformers[1].min_width \notin {<<>>, <<0>>}
         THEN Max(transformers[1].min_width[1] - Len(row[column + 1].value),
                  formatting_config.space_count)
         ELSE Max(LookUp[column] - Len(row[column + 1].value) + 4,
                  formatting_config.space_count)
    ELSE formatting_config.space_count

\* the separators of the claim of a variable definition, row after row
ClaimedSeparators(statement) ==
    LET rows == tokens_by_lines(statement)
    IN  Concat(AsSeq([r \in 1..Len(rows) |->
                         AsSeq([k \in 1..(Len(rows[r]) - 2) |->
                                   ClaimedSeparator(rows[r], k - 1)])]))

\* C16: in every row that is aligned the separator after a token of a column
\* before the boundary is max(lookup[column] - length of the token + 4,
\* space_count) long, or max(min_width - length of the token, space_count)
\* when min_width is configured, and the separator after a token of a column
\* at or past the boundary is space_count long; so after a first column of 4
\* characters, in a section with one of 14, come 16 spaces.
C16_Separator ==
    AlignDone =>
        \A i \in 1..Len(source.sections[1].body) :
            Alignable(source.sections[1].body[i]) =>
                SeparatorLengths(model.sections[1].body[i])
                    = ClaimedSeparators(source.sections[1].body[i])

\* the rows of 4 and 14 characters aligned with the default parameters: 16
\* spaces follow the shorter name
C16_Example ==
    (/\ AlignDone
     /\ Configured = 2
     /\ transformers[1].min_width = <<>>
     /\ transformers[1].skip_types = {}
     /\ Len(source.sections[1].body) = 2
     /\ AlignableRows(source.sections[1]) # <<>>
     /\ source.sections[1].body[1].tokens[1].value = S_var_a
     /\ Len(tokens_by_lines(source.sections[1].body[1])) = 1
     /\ source.sections[1].body[2].tokens[1].value = S_var_long)
    => SeparatorLengths(model.sections[1].body[1]) = <<16>>

\* a variable definition whose sigil is among the skipped ones
Skipped(statement) ==
    /\ statement.type = "Variable"
    /\ statement.tokens[1].value[1] \in transformers[1].skip_types

\* the types and values of the tokens of a statement other than separators
Columns(statement) ==
    LET tokens == SelectSeq(statement.tokens, LAMBDA token : token.type # "SEPARATOR")
    IN  AsSeq([i \in 1..Len(tokens) |-> <<tokens[i].type, tokens[i].value>>])

\* the section without the variable definitions that are skipped
WithoutSkipped(section) ==
    [section EXCEPT !.body = SelectSeq(@, LAMBDA statement : ~Skipped(statement))]

\* C17: a variable definition whose sigil is in skip_types is the same node
\* after the pass and the width table is the one of the section without it;
\* the body has as many children as before, each of the kind it was, and
\* where a variable definition that is aligned was there is one variable
\* definition with the same name and values.
C17_TypeFilter ==
    AlignDone =>
        /\ Len(model.sections[1].body) = Len(source.sections[1].body)
        /\ \A i \in 1..Len(source.sections[1].body) :
               /\ model.sections[1].body[i].type = source.sections[1].body[i].type
               /\ Skipped(source.sections[1].body[i])
                      => model.sections[1].body[i] = source.sections[1].body[i]
               /\ Alignable(source.sections[1].body[i])
                      => Columns(model.sections[1].body[i]) = Columns(source.sections[1].body[i])
        /\ AlignableRows(source.sections[1]) # <<>> =>
               LookUp = create_look_up(
                            AlignVariablesSection_statements(WithoutSkipped(source.sections[1]),
                                                             transformers[1], formatting_config),
                            transformers[1])

\* a skipped variable definition with values longer than those of the one
\* that is aligned next to it, which the pass has changed
C17_Witness ==
    /\ AlignDone
    /\ Len(source.sections[1].body) = 2
    /\ \E i, j \in 1..2 :
           /\ Skipped(source.sections[1].body[i])
           /\ Alignable(source.sections[1].body[j])
           /\ Len(source.sections[1].body[i].tokens[1].value)
                  > Len(source.sections[1].body[j].tokens[1].value)
           /\ model.sections[1].body[j] # source.sections[1].body[j]


(***************************************************************************)
(* Loading the configured transformers                                     *)
(***************************************************************************)
\* the registry of transformer names, in the order of registration
TRANSFORMERS ==
    <<"DiscardEmptySections", "ReplaceRunKeywordIf", "AssignmentNormalizer",
      "NormalizeSettingName", "NormalizeSectionHeaderName", "NormalizeNewLines",
      "AlignVariablesSection", "RemoveEmptySettings">>

\* Importer().import_class_or_module(name, instantiate_with_args=args): the
\* class called with the arguments, or what its constructor raised
import_class_or_module(name, args) ==
    CASE name = "DiscardEmptySections" -> DiscardEmptySections(args[1])
      [] name = "AssignmentNormalizer" -> AssignmentNormalizer(args[1])
      [] name = "NormalizeSectionHeaderName" -> NormalizeSectionHeaderName(args[1])
      [] name = "NormalizeNewLines" -> NormalizeNewLines(args[1], args[2], args[3], args[4])
      [] name = "AlignVariablesSection" -> AlignVariablesSection(args[1], args[2], args[3])
      [] name = "RemoveEmptySettings" -> RemoveEmptySettings(args[1], args[2])
      [] name \in {"ReplaceRunKeywordIf", "NormalizeSettingName"} -> [name |-> name]

\* loaded_transformers[name] = instance: a new key goes last, a key that is
\* there keeps its place and takes the new value
dict_setitem(items, key, value) ==
    IF \E i \in 1..Len(items) : items[i].key = key
    THEN [i \in 1..Len(items) |->
              IF items[i].key = key THEN [key |-> key, value |-> value] ELSE items[i]]
    ELSE Append(items, [key |-> key, value |-> value])

\* the for loop of load_transformers over the configured pairs
RECURSIVE load_each(_, _)
load_each(loaded_transformers, remaining) ==
    IF remaining = <<>> THEN [type |-> "dict", items |-> loaded_transformers]
    ELSE LET instance == import_class_or_module(Head(remaining).name, Head(remaining).args)
         IN  IF "type" \in DOMAIN instance THEN instance
             ELSE load_each(dict_setitem(loaded_transformers, Head(remaining).name, instance),
                            Tail(remaining))

\* load_transformers(allowed_transformers): the dict of instances by name, or
\* what a constructor raised; with nothing configured, every transformer of
\* the registry made without arguments
load_transformers(allowed, allow_only_comments) ==
    IF allowed # <<>> THEN load_each(<<>>, allowed)
    ELSE [type |-> "dict",
          items |-> [i \in 1..Len(TRANSFORMERS) |->
                         [key |-> TRANSFORMERS[i],
                          value |-> DefaultTransformers(allow_only_comments)[i]]]]

\* the configuration is loaded before any file is transformed; the instances
\* run in the order of the dict's values
Load ==
    /\ pc = "load"
    /\ \E allow_only_comments \in BOOLEAN :
           LET loaded == load_transformers(allowed_transformers, allow_only_comments)
           IN  IF loaded.type = "raise"
               THEN /\ pc' = "raised"
                    /\ UNCHANGED transformers
               ELSE /\ transformers' = [i \in 1..Len(loaded.items) |-> loaded.items[i].value]
                    /\ pc' = "run"
    /\ UNCHANGED <<formatting_config, allowed_transformers, sources, serial, source, previous,
                   model, before, pos, first, configs, wrote>>

\* Configurations: at most MaxEntries pairs of a name and arguments, the
\* arguments in and out of each parameter's domain.
MaxEntries == 2

S_dict_string == S_dict_type \o <<",">> \o <<"s","t","r","i","n","g">>

ConfigEntries ==
    {[name |-> "AssignmentNormalizer", args |-> <<type>>] :
         type \in {"remove", "equal_sign", "colon"}}
    \cup {[name |-> "RemoveEmptySettings", args |-> <<work_mode, TRUE>>] :
              work_mode \in {"always", "overwrite_ok", "never"}}
    \cup {[name |-> "AlignVariablesSection", args |-> args] :
              args \in {<<2, <<>>, <<>>>>, <<-1, <<>>, <<>>>>, <<2, <<>>, <<-1>>>>,
                        <<2, S_scalar_type, <<>>>>, <<2, S_dict_string, <<>>>>}}
    \cup {[name |-> "NormalizeNewLines", args |-> args] :
              args \in {<<1, <<>>, 2, FALSE>>, <<1, <<>>, -1, FALSE>>,
                        <<-1, <<>>, 2, FALSE>>, <<1, <<-1>>, 2, FALSE>>}}
    \cup {[name |-> "DiscardEmptySections", args |-> <<TRUE>>]}

InitConfig ==
    /\ formatting_config = DefaultFormatting
    /\ allowed_transformers \in SeqsUpTo(ConfigEntries, MaxEntries)
    /\ transformers = <<>>
    /\ sources = <<>>
    /\ serial = 1
    /\ source = Parse(ScopeLines)
    /\ previous = None
    /\ model = source
    /\ before = source
    /\ pos = 1
    /\ first = None
    /\ configs = <<>>
    /\ wrote = <<>>
    /\ pc = "load"

NextConfig == Load \/ Transform

SpecConfig == InitConfig /\ [][NextConfig]_vars

\* the arguments of a configured pair are in the documented domains: a known
\* enumerated value, known variable types, no negative integer
InDomain(entry) ==
    CASE entry.name = "AssignmentNormalizer" ->
            entry.args[1] \in {"remove", "equal_sign", "space_and_equal_sign", "autodetect"}
      [] entry.name = "RemoveEmptySettings" -> entry.args[1] \in {"overwrite_ok", "always"}
      [] entry.name = "AlignVariablesSection" ->
            /\ entry.args[1] >= 0
            /\ entry.args[2] # <<>> =>
                   \A i \in 1..Len(str_split(entry.args[2], ",")) :
                       str_split(entry.args[2], ",")[i]
                           \in {S_dict_type, S_list_type, S_scalar_type}
            /\ entry.args[3] # <<>> => entry.args[3][1] >= 0
      [] entry.name = "NormalizeNewLines" ->
            /\ entry.args[1] >= 0
            /\ entry.args[2] # <<>> => entry.args[2][1] >= 0
            /\ entry.args[3] >= 0
      [] OTHER -> TRUE

\* C18: a configuration with an argument outside its parameter's domain is
\* rejected when the transformers are loaded: no traversal starts with it.
C18_EagerConfigurationError ==
    pc \in {"run", "done"} => \A i \in 1..Len(allowed_transformers) : InDomain(allowed_transformers[i])

\* the part of C18 the constructors do check: an unknown enumerated value or
\* variable type never gets past the loading
C18_NamesChecked ==
    pc \in {"run", "done"} =>
        \A i \in 1..Len(allowed_transformers) :
            allowed_transformers[i].name
                    \in {"AssignmentNormalizer", "RemoveEmptySettings"}
                => InDomain(allowed_transformers[i])

\* C19: the loaded transformers are one instance per configured pair, in the
\* order of the pairs and each made with the arguments of its pair, also
\* when a name is configured twice; with nothing configured they are the
\* transformers of the registry, in its order.
C19_LoadOrder ==
    (pc = "run" /\ pos = 1) =>
        IF allowed_transformers = <<>>
        THEN /\ Len(transformers) = Len(TRANSFORMERS)
             /\ \A i \in 1..Len(TRANSFORMERS) : transformers[i].name = TRANSFORMERS[i]
        ELSE /\ Len(transformers) = Len(allowed_transformers)
             /\ \A i \in 1..Len(allowed_transformers) :
                    transformers[i] = import_class_or_module(allowed_transformers[i].name,
                                                             allowed_transformers[i].args)

\* what C19 says of configurations that name no transformer twice
C19_DistinctNames ==
    (/\ pc = "run"
     /\ pos = 1
     /\ allowed_transformers # <<>>
     /\ \A i, j \in 1..Len(allowed_transformers) :
            allowed_transformers[i].name = allowed_transformers[j].name => i = j) =>
        /\ Len(transformers) = Len(allowed_transformers)
        /\ \A i \in 1..Len(allowed_transformers) :
               transformers[i] = import_class_or_module(allowed_transformers[i].name,
                                                        allowed_transformers[i].args)


(***************************************************************************)
(* The configuration wizard: GenerateConfig                                *)
(***************************************************************************)
S_True == <<"T","r","u","e">>
S_False == <<"F","a","l","s","e">>
S_enabled == <<"e","n","a","b","l","e","d">>
S_up_to_column == <<"u","p","_","t","o","_","c","o","l","u","m","n">>
S_skip_types == <<"s","k","i","p","_","t","y","p","e","s">>
S_min_width == <<"m","i","n","_","w","i","d","t","h">>
S_work_mode == <<"w","o","r","k","_","m","o","d","e">>
S_more_explicit == <<"m","o","r","e","_","e","x","p","l","i","c","i","t">>
S_allow_only_comments == <<"a","l","l","o","w","_","o","n","l","y","_","c","o","m","m","e","n","t","s">>
S_overwrite_ok == <<"o","v","e","r","w","r","i","t","e","_","o","k">>
S_always == <<"a","l","w","a","y","s">>
S_AlignVariablesSection == <<"A","l","i","g","n","V","a","r","i","a","b","l","e","s","S","e","c","t","i","o","n">>
S_DiscardEmptySections == <<"D","i","s","c","a","r","d","E","m","p","t","y","S","e","c","t","i","o","n","s">>
S_RemoveEmptySettings == <<"R","e","m","o","v","e","E","m","p","t","y","S","e","t","t","i","n","g","s">>

DecimalDigits == <<"0","1","2","3","4","5","6","7","8","9">>

\* str(number)
RECURSIVE str_int(_)
str_int(number) ==
    IF number < 0 THEN <<"-">> \o str_int(0 - number)
    ELSE IF number < 10 THEN <<DecimalDigits[number + 1]>>
    ELSE str_int(number \div 10) \o <<DecimalDigits[(number % 10) + 1]>>

\* str(value) of a bool, an int or a str
str(value) ==
    CASE value.type = "bool" -> IF value.v THEN S_True ELSE S_False
      [] value.type = "int" -> str_int(value.v)
      [] value.type = "str" -> value.v

\* whether int(text) returns: an optional sign and decimal digits
is_int(text) ==
    LET digits == IF text # <<>> /\ Head(text) \in {"-", "+"} THEN Tail(text) ELSE text
    IN  /\ digits # <<>>
        /\ \A i \in 1..Len(digits) : \E d \in 1..10 : DecimalDigits[d] = digits[i]

RECURSIVE int_digits(_)
int_digits(digits) ==
    IF digits = <<>> THEN 0
    ELSE int_digits(Front(digits)) * 10
         + (CHOOSE d \in 0..9 : DecimalDigits[d + 1] = Last(digits))

\* int(text), where it returns
int(text) ==
    IF Head(text) = "-" THEN 0 - int_digits(Tail(text))
    ELSE IF Head(text) = "+" THEN int_digits(Tail(text))
    ELSE int_digits(text)

\* validate_int: "True", or the message that makes the prompt ask again
validate_int(text, min_val, max_val) ==
    IF ~is_int(text) THEN "Please enter a integer"
    ELSE IF min_val # <<>> /\ int(text) < min_val[1] THEN "Provided number lower than"
    ELSE IF max_val # <<>> /\ int(text) > max_val[1] THEN "Provided number higher than"
    ELSE "True"

\* ",".join(names)
RECURSIVE str_join(_, _)
str_join(sep, names) ==
    IF names = <<>> THEN <<>>
    ELSE IF Len(names) = 1 THEN names[1]
    ELSE names[1] \o sep \o str_join(sep, Tail(names))

\* choices[answer] of a dict given as its (key, value) pairs
dict_getitem(choices, key) == (CHOOSE item \in choices : item[1] = key)[2]

\* TransformerConfig(name, enabled, msg), with the answer its ask() got
TransformerConfig(name, enabled, answer) ==
    [name |-> name,
     enabled |-> IF answer # enabled THEN answer ELSE enabled,
     value |-> IF answer # enabled THEN <<answer>> ELSE <<>>,
     parameters |-> <<>>,
     answer |-> answer]

\* Parameter.__str__
Parameter___str__(self) == self.param \o <<" ","="," ">> \o str(self.value[1])

\* TransformerConfig.__str__
TransformerConfig___str__(self) ==
    (IF self.value # <<>>
     THEN <<"\n"," "," "," "," ","\"">> \o self.name \o <<":"," ","e","n","a","b","l","e","d"," ","="," ">>
          \o str([type |-> "bool", v |-> self.enabled]) \o <<"\"",",">>
     ELSE <<>>)
    \o (IF self.enabled
        THEN Concat(AsSeq([i \in 1..Len(self.parameters) |->
                 IF self.parameters[i].value # <<>>
                 THEN <<"\n"," "," "," "," ","\"">> \o self.name \o <<":"," ">>
                      \o Parameter___str__(self.parameters[i]) \o <<"\"",",">>
                 ELSE <<>>]))
        ELSE <<>>)

\* ParameterBool(question, param, default, first, second), with the answer
\* its ask() got: one of the two choices
ParameterBool(param, default, first_choice, second, answer) ==
    [class |-> "ParameterBool", param |-> param, default |-> default,
     first |-> first_choice, second |-> second,
     value |-> IF answer = <<second>> THEN <<[type |-> "bool", v |-> ~default]>> ELSE <<>>,
     answer |-> answer]

\* ParameterInt.ask, were the value kept whatever the answer
ParameterInt_ask_any(default, answer) == <<[type |-> "int", v |-> int(answer)]>>

\* ParameterInt.ask: the value for an answer the validation accepted
ParameterInt_ask(default, answer) ==
    IF answer # str_int(default) THEN <<[type |-> "int", v |-> int(answer)]>> ELSE <<>>

\* ParameterInt(question, param, default, min, max), with the answer
ParameterInt(param, default, min, max, answer) ==
    [class |-> "ParameterInt", param |-> param, default |-> default, min |-> min, max |-> max,
     value |-> ParameterInt_ask(default, answer),
     answer |-> answer]

\* ParameterSelectSingle(question, param, default, choices), with the answer
ParameterSelectSingle(param, default, choices, answer) ==
    [class |-> "ParameterSelectSingle", param |-> param, default |-> default,
     choices |-> choices,
     value |-> IF answer # "" /\ answer # default
               THEN <<[type |-> "str", v |-> dict_getitem(choices, answer)]>> ELSE <<>>,
     answer |-> answer]

\* ParameterSelectMany(question, param, default, choices), with the answer (the
\* choices that were ticked) and the order in which the set of the selected
\* values is iterated
ParameterSelectMany(param, default, choices, answer, order) ==
    LET selected == {dict_getitem(choices, ans) : ans \in answer}
    IN  [class |-> "ParameterSelectMany", param |-> param, default |-> default,
         choices |-> choices,
         value |-> IF selected # {} /\ selected # default
                   THEN <<[type |-> "str", v |-> str_join(<<",">>, order)]>>
                   ELSE <<>>,
         answer |-> answer,
         order |-> order]

\* the choices of the questions, as the prompt shows them
Labelled(first_choice) == <<first_choice, " (default)">>

SkipTypeChoices ==
    {<<"scalar (${variable)", S_scalar_type>>, <<"dict (&{variable)", S_dict_type>>,
     <<"list (@{variable)", S_list_type>>}

WorkModeChoices ==
    {<<"overwrite_ok (default): does not remove settings that are overwriting suite settings",
       S_overwrite_ok>>,
     <<"Remove all empty settings", S_always>>}

\* self.__dict__.get("ENABLED", True): no constructor sets the attribute
get_ENABLED(self) == TRUE

\* DiscardEmptySections.generate_config
DiscardEmptySections_generate_config(self, answers) ==
    LET config == TransformerConfig(S_DiscardEmptySections, get_ENABLED(self), answers.enabled)
    IN  IF ~config.enabled THEN config
        ELSE [config EXCEPT !.parameters =
                  <<ParameterBool(S_allow_only_comments, self.allow_only_comments,
                                  "Allow sections only with comments",
                                  "Remove sections only with comments",
                                  answers.allow_only_comments)>>]

\* AlignVariablesSection.generate_config
AlignVariablesSection_generate_config(self, answers) ==
    LET config == TransformerConfig(S_AlignVariablesSection, get_ENABLED(self), answers.enabled)
    IN  IF ~config.enabled THEN config
        ELSE [config EXCEPT !.parameters =
                  <<ParameterInt(S_up_to_column, 2, <<0>>, <<>>, answers.up_to_column),
                    ParameterSelectMany(S_skip_types, {}, SkipTypeChoices,
                                        answers.skip_types, answers.order),
                    ParameterInt(S_min_width, 0, <<0>>, <<>>, answers.min_width)>>]

\* RemoveEmptySettings.generate_config
RemoveEmptySettings_generate_config(self, answers) ==
    LET config == TransformerConfig(S_RemoveEmptySettings, get_ENABLED(self), answers.enabled)
    IN  IF ~config.enabled THEN config
        ELSE [config EXCEPT !.parameters =
                  <<ParameterSelectSingle(
                        S_work_mode,
                        "overwrite_ok (default): does not remove settings that are overwriting suite settings",
                        WorkModeChoices, answers.work_mode),
                    ParameterBool(S_more_explicit, self.more_explicit,
                                  "Convert to be more explicit",
                                  "Leave empty (if settings overwrite suite settings)",
                                  answers.more_explicit)>>]

\* hasattr(transformer, "generate_config")
has_generate_config(self) ==
    self.name \in {"DiscardEmptySections", "AlignVariablesSection", "RemoveEmptySettings"}

generate_config(self, answers) ==
    CASE self.name = "DiscardEmptySections" -> DiscardEmptySections_generate_config(self, answers)
      [] self.name = "AlignVariablesSection" ->
            AlignVariablesSection_generate_config(self, answers)
      [] self.name = "RemoveEmptySettings" -> RemoveEmptySettings_generate_config(self, answers)

\* Answers: what the user may answer to the questions of a transformer. A
\* number is typed as text, and the prompt returns only a text that
\* validate_int accepts; the order is any order of the ticked types.
IntTexts == {<<"0">>, <<"2">>, <<"3">>, <<"0","2">>, <<"8">>, <<"-","1">>, <<"x">>}

IntAnswers(min_val, max_val) == {text \in IntTexts : validate_int(text, min_val, max_val) = "True"}

SkipTypeAnswers ==
    {[skip_types |-> {}, order |-> <<>>],
     [skip_types |-> {"scalar (${variable)"}, order |-> <<S_scalar_type>>],
     [skip_types |-> {"dict (&{variable)", "list (@{variable)"},
      order |-> <<S_dict_type, S_list_type>>],
     [skip_types |-> {"dict (&{variable)", "list (@{variable)"},
      order |-> <<S_list_type, S_dict_type>>]}

Answers(self) ==
    CASE self.name = "DiscardEmptySections" ->
            {[enabled |-> enabled, allow_only_comments |-> answer] :
                 enabled \in BOOLEAN,
                 answer \in {Labelled("Allow sections only with comments"),
                             <<"Remove sections only with comments">>}}
      [] self.name = "AlignVariablesSection" ->
            {[enabled |-> enabled, up_to_column |-> up_to_column,
              skip_types |-> skip.skip_types, order |-> skip.order, min_width |-> min_width] :
                 enabled \in BOOLEAN, up_to_column \in IntAnswers(<<0>>, <<>>),
                 skip \in SkipTypeAnswers, min_width \in IntAnswers(<<0>>, <<>>)}
      [] self.name = "RemoveEmptySettings" ->
            {[enabled |-> enabled, work_mode |-> work_mode, more_explicit |-> answer] :
                 enabled \in BOOLEAN,
                 work_mode \in {choice[1] : choice \in WorkModeChoices},
                 answer \in {Labelled("Convert to be more explicit"),
                             <<"Leave empty (if settings overwrite suite settings)">>}}

\* collect_config, one loaded transformer at a time: a transformer with a
\* generate_config asks its questions and gives its TransformerConfig
Collect ==
    /\ pc = "collect"
    /\ pos <= Len(transformers)
    /\ IF has_generate_config(transformers[pos])
       THEN \E answers \in Answers(transformers[pos]) :
                configs' = Append(configs, generate_config(transformers[pos], answers))
       ELSE UNCHANGED configs
    /\ pos' = pos + 1
    /\ UNCHANGED <<formatting_config, allowed_transformers, transformers, sources, serial,
                   source, previous, model, before, first, wrote, pc>>

\* generate, once the configs are collected: the file is written unless no
\* config has an entry
Generate ==
    /\ pc = "collect"
    /\ pos > Len(transformers)
    /\ LET config_list == Concat(AsSeq([i \in 1..Len(configs) |->
                                            TransformerConfig___str__(configs[i])]))
           toml_file == <<"[","t","o","o","l",".","r","o","b","o","t","i","d","y","]","\n","c","o","n","f","i","g","u","r","e"," ","="," ","[">> \o config_list \o <<"\n","]">>
       IN  IF config_list = <<>>
           THEN UNCHANGED wrote
           ELSE wrote' = Append(wrote, [dest |-> "pyproject_robotidy.toml",
                                        text |-> toml_file])
    /\ pc' = "generated"
    /\ UNCHANGED <<formatting_config, allowed_transformers, transformers, sources, serial,
                   source, previous, model, before, pos, first, configs>>

\* the wizard starts with the transformers of the registry, made without
\* arguments
InitWizard ==
    /\ formatting_config = DefaultFormatting
    /\ allowed_transformers = <<>>
    /\ transformers = DefaultTransformers(TRUE)
    /\ sources = <<>>
    /\ serial = 1
    /\ source = None
    /\ previous = None
    /\ model = None
    /\ before = None
    /\ pos = 1
    /\ first = None
    /\ configs = <<>>
    /\ wrote = <<>>
    /\ pc = "collect"

NextWizard == Collect \/ Generate

SpecWizard == InitWizard /\ [][NextWizard]_vars

\* What the answers ask for, read off the answers alone.
\* the answer to a parameter's question differs from the parameter's default
Differs(parameter) ==
    CASE parameter.class = "ParameterBool" -> parameter.answer # Labelled(parameter.first)
      [] parameter.class = "ParameterInt" -> parameter.answer # str_int(parameter.default)
      [] parameter.class = "ParameterSelectSingle" -> parameter.answer # parameter.default
      [] parameter.class = "ParameterSelectMany" ->
            {dict_getitem(parameter.choices, ans) : ans \in parameter.answer}
                # parameter.default

\* the value an answer stands for, as text
Answered(parameter) ==
    CASE parameter.class = "ParameterBool" ->
            IF (parameter.answer = Labelled(parameter.first)) = parameter.default
            THEN S_True ELSE S_False
      [] parameter.class = "ParameterInt" -> str_int(int(parameter.answer))
      [] parameter.class = "ParameterSelectSingle" ->
            dict_getitem(parameter.choices, parameter.answer)
      [] parameter.class = "ParameterSelectMany" -> str_join(<<",">>, parameter.order)

Entry(name, setting, value) ==
    <<"\n"," "," "," "," ","\"">> \o name \o <<":"," ">> \o setting \o <<" ","="," ">> \o value \o <<"\"",",">>

Entries(config) ==
    (IF config.answer # TRUE THEN Entry(config.name, S_enabled, S_False) ELSE <<>>)
    \o (IF config.answer
        THEN Concat(AsSeq([i \in 1..Len(config.parameters) |->
                 IF Differs(config.parameters[i])
                 THEN Entry(config.name, config.parameters[i].param,
                            Answered(config.parameters[i]))
                 ELSE <<>>]))
        ELSE <<>>)

AllEntries == Concat(AsSeq([i \in 1..Len(configs) |-> Entries(configs[i])]))

\* the questions a transformer asks once it is enabled
Questions(name) ==
    CASE name = S_DiscardEmptySections -> <<S_allow_only_comments>>
      [] name = S_AlignVariablesSection -> <<S_up_to_column, S_skip_types, S_min_width>>
      [] name = S_RemoveEmptySettings -> <<S_work_mode, S_more_explicit>>

\* a disabled transformer was asked no parameter question, an enabled one
\* every question of its own
AskedAsEnabled ==
    \A i \in 1..Len(configs) :
        AsSeq([j \in 1..Len(configs[i].parameters) |-> configs[i].parameters[j].param])
            = IF configs[i].answer THEN Questions(configs[i].name) ELSE <<>>

ExpectedFile ==
    [dest |-> "pyproject_robotidy.toml",
     text |-> <<"[","t","o","o","l",".","r","o","b","o","t","i","d","y","]","\n","c","o","n","f","i","g","u","r","e"," ","="," ","[">> \o AllEntries \o <<"\n","]">>]

\* C20: whatever the answers, the wizard writes once, to
\* pyproject_robotidy.toml, the text '[tool.robotidy]\nconfigure = [' +
\* entries + '\n]', the entries in transformer order: an 'enabled' entry for
\* a transformer whose enable answer differs from its default, and a
\* parameter entry for every parameter of an enabled transformer whose answer
\* differs from its default; a disabled transformer is asked no parameter
\* question.
C20_WizardOutput ==
    pc = "generated" => (wrote = <<ExpectedFile>> /\ AskedAsEnabled)

\* C20, amended: the same, where the answers give at least one entry; where
\* every answer is the default, nothing is written.
C20_WizardOutputUnlessEmpty ==
    pc = "generated" =>
        /\ wrote = IF AllEntries = <<>> THEN <<>> ELSE <<ExpectedFile>>
        /\ AskedAsEnabled

\* the answers of the test: one transformer enabled with up_to_column = 3 and
\* the other answers left at their defaults, the other transformers disabled
C20_Witness ==
    /\ pc = "generated"
    /\ Len(wrote) = 1
    /\ wrote[1].text
           = <<"[","t","o","o","l",".","r","o","b","o","t","i","d","y","]","\n","c","o","n","f","i","g","u","r","e"," ","="," ","[">>
             \o <<"\n"," "," "," "," ","\"","D","i","s","c","a","r","d","E","m","p","t","y","S","e","c","t","i","o","n","s",":"," ","e","n","a","b","l","e","d"," ","="," ","F","a","l","s","e","\"",",">>
             \o <<"\n"," "," "," "," ","\"","A","l","i","g","n","V","a","r","i","a","b","l","e","s","S","e","c","t","i","o","n",":"," ","u","p","_","t","o","_","c","o","l","u","m","n"," ","="," ","3","\"",",">>
             \o <<"\n"," "," "," "," ","\"","R","e","m","o","v","e","E","m","p","t","y","S","e","t","t","i","n","g","s",":"," ","e","n","a","b","l","e","d"," ","="," ","F","a","l","s","e","\"",",">>
             \o <<"\n","]">>

\* every answer was the default: the wizard ends and has written nothing
C20_WitnessDefaults ==
    /\ pc = "generated"
    /\ AllEntries = <<>>
    /\ wrote = <<>>


(***************************************************************************)
(* NormalizeNewLines on files with blank lines inside the bodies            *)
(***************************************************************************)
\* sections whose bodies, and whose tests and keywords, hold blank lines
\* before, between and after their statements
SpacedSections ==
    {<<L_Settings, L_Blank, L_Doc, L_Blank, L_Template, L_Blank>>,
     <<L_Settings, L_Blank>>,
     <<L_Variables, L_Variable(S_var_a), L_Blank, L_Blank, L_Variable(S_var_a)>>,
     <<L_TestCases, L_Blank, L_Test, L_Blank, L_Call, L_Blank, L_Call, L_Blank,
       L_Test, L_Call>>,
     <<L_TestCases, L_Test, L_Blank>>,
     <<L_Keywords, L_Keyword, L_Call, L_Blank, L_Blank, L_Call, L_Blank, L_Keyword, L_Blank>>}

InitSpaced ==
    \E chunks \in SeqsUpTo(SpacedSections, MaxSections), given \in NewLinesParameters :
        Start(DefaultFormatting,
              <<NormalizeNewLines(given[1], given[2], given[3], given[4])>>,
              <<Parse(Concat(chunks))>>)

SpecSpaced == InitSpaced /\ [][Transform]_vars

\* a body holds a blank line between two statements that are not blank lines
SpacedInside(body) == \E i \in 1..Len(Core(body)) : Core(body)[i].type = "EmptyLine"

\* the node after the pass is the node before it but for the blank lines its
\* body, and the bodies of its tests and keywords, start and end with: from
\* the first to the last statement that is not a blank line the bodies agree,
\* statement by statement and blank line by blank line
RECURSIVE Preserved(_, _)
Preserved(given, node) ==
    IF ~(IsSection(given) \/ IsBlock(given)) THEN node = given
    ELSE /\ node.type = given.type
         /\ node.header = given.header
         /\ Len(Core(node.body)) = Len(Core(given.body))
         /\ \A i \in 1..Len(Core(given.body)) :
                Preserved(Core(given.body)[i], Core(node.body)[i])

\* C22: NormalizeNewLines only removes and appends blank lines at the start
\* and the end of the bodies of sections, tests and keywords: the sections
\* keep their order, and every body keeps its statements that are not blank
\* lines and the blank lines between them.
C22_ContentPreservation ==
    NewLinesDone =>
        /\ Len(model.sections) = Len(source.sections)
        /\ \A i \in 1..Len(source.sections) : Preserved(source.sections[i], model.sections[i])

\* a test with blank lines before, between and after its statements, in a
\* section that started with a blank line, which the pass has changed
C22_Witness ==
    /\ NewLinesDone
    /\ \E i \in 1..Len(source.sections) :
           /\ source.sections[i].type = "TestCaseSection"
           /\ source.sections[i].body[1].type = "EmptyLine"
           /\ \E j \in 1..Len(source.sections[i].body) :
                  /\ source.sections[i].body[j].type = "TestCase"
                  /\ SpacedInside(source.sections[i].body[j].body)
                  /\ Head(source.sections[i].body[j].body).type = "EmptyLine"
                  /\ Last(source.sections[i].body[j].body).type = "EmptyLine"
           /\ model.sections[i] # source.sections[i]

====
